---- MODULE Spec2Model ----
(***************************************************************************)
(* The trace Loggers of the repository, called from several goroutines:   *)
(* the buffered Logger of golang/v2/main.go (Spec) and, further down, the  *)
(* Logger that keeps a single trace (SpecSingle).                          *)
(* Every exported method is modelled as the steps a goroutine              *)
(* takes through it: the call, l.mu.Lock(), the body under the mutex, the  *)
(* blocking httpClient.Do where there is one, and the return with its      *)
(* deferred l.mu.Unlock().                                                 *)
(* SpecWarm is Spec begun with a concluded trace in the buffer, SpecDryRun *)
(* the single-trace Logger over every configuration of its constructor,    *)
(* SpecInit the resolution of project and log stream that precedes the     *)
(* use of either Logger, SpecMain the main() of golang/v2/main.go.         *)
(* SpecLive is Spec under the scheduling of the goroutines, SpecDemo the   *)
(* main() of the two demonstration programs (demo_observe.go and the       *)
(* evaluate demo).                                                         *)
(*                                                                         *)
(* Go values are modelled as follows.                                      *)
(*  - *GalileoTrace / *GalileoSpan: records; the nil pointer is NilTrace.  *)
(*    The Logger only ever holds one pointer to a trace (currentTrace is   *)
(*    set to nil when the trace enters traceBuffer), so values suffice.    *)
(*  - map[string]interface{}: a function on a finite set of strings; the   *)
(*    nil map and the empty map are both EmptyMap (the code only tests nil *)
(*    in order to make() an empty one, and omitempty drops both).          *)
(*  - uuid.New(): the counter nextID.  time.Now(): the counter clock.      *)
(*  - time.Time{} (the zero value) is ZeroTime.                            *)
(***************************************************************************)
EXTENDS Integers, Sequences, FiniteSets, TLC

\* Total number of Logger method calls issued over a run.
MaxCalls == 4

Goroutines == {"g1", "g2"}

Unlocked == "unlocked"

ZeroTime == 0

\* A value json.Marshal rejects (a channel or a func held in an interface{}).
Unmarshalable == "<chan>"

\* The nil interface{} value of a SpanConfig field the caller did not set.
NilValue == "<nil>"

EmptyMap == [k \in {} |-> ""]

NilTrace ==
    [ID |-> 0, Name |-> "", Input |-> "", Output |-> "", Spans |-> <<>>,
     Metadata |-> EmptyMap, StartTime |-> ZeroTime, EndTime |-> ZeroTime]

NoOp == [name |-> "none"]

NoLocal == [span |-> [ID |-> 0], spans |-> <<>>]

NoReturn == [value |-> "", err |-> "none"]

\* Logger.projectID and Logger.logStreamID of a Logger whose initialization
\* found its project and its log stream: resolved once, before any of the
\* methods can be called, and never assigned again.
ProjectID == "proj-1"

LogStreamID == "ls-1"

\* The programs that initialize a Logger against the one remote service, and
\* the program whose Logger the methods below work on.
Programs == {"p1", "p2"}

Main == "p1"

\* The goroutine that runs main().
MainGoroutine == "g1"

\* m[k] = v of a Go map.
MapSet(m, k, v) ==
    [x \in (DOMAIN m) \cup {k} |-> IF x = k THEN v ELSE m[x]]

\* strings.Join(tags, ",")
RECURSIVE Join(_)
Join(tags) ==
    IF Len(tags) = 0 THEN ""
    ELSE IF Len(tags) = 1 THEN tags[1]
    ELSE tags[1] \o "," \o Join(Tail(tags))

---------------------------------------------------------------------------
\* The inputs the callers draw from.

TraceConfigs ==
    { [Name |-> "Basic LLM Call", Input |-> "q1", Tags |-> <<"basic", "llm-only">>,
       Metadata |-> EmptyMap],
      [Name |-> "", Input |-> "q2", Tags |-> <<>>, Metadata |-> [user |-> "u1"]] }

SpanConfigs ==
    { [Name |-> "document_retrieval", Input |-> "in1", Output |-> "out1",
       DurationNs |-> 2, Metadata |-> EmptyMap, Tags |-> <<"preprocessing">>,
       Error |-> "", Type |-> "retriever"],
      [Name |-> "api_call", Input |-> "in2", Output |-> NilValue, DurationNs |-> 0,
       Metadata |-> EmptyMap, Tags |-> <<>>, Error |-> "timeout", Type |-> ""],
      [Name |-> "stream", Input |-> Unmarshalable, Output |-> "out3", DurationNs |-> 1,
       Metadata |-> [step |-> "3"], Tags |-> <<>>, Error |-> "", Type |-> "tool"] }

LlmSpanConfigs ==
    { [Input |-> "in4", Output |-> "out4", Model |-> "gpt-4o", NumInputTokens |-> 8,
       NumOutputTokens |-> 7, TotalTokens |-> 15, DurationNs |-> 3,
       Metadata |-> [model |-> "caller", temperature |-> "0.7"],
       Tags |-> <<"llm", "geography">>] }

ConcludeConfigs ==
    { [Output |-> "answer", DurationNs |-> 3, Tags |-> <<"completed", "success">>],
      [Output |-> "", DurationNs |-> 0, Tags |-> <<>>] }

\* The context handed to FlushWithContext: a context with a deadline or a
\* cancel function, and the nil context.  What httpClient.Do does under
\* context.Background() it also does under a context that is never cancelled.
Contexts == {"cancellable", "nil"}

SessionNames == {"Go Demo Session"}

\* What httpClient.Do can come back with: a status code, a transport error,
\* or the error of a context that was cancelled or ran out first.
Statuses == {200, 201, 500}

DoOutcomes(ctx) ==
    [kind : {"status"}, status : Statuses]
        \cup {[kind |-> "network_error", status |-> 0]}
        \cup (IF ctx = "cancellable"
              THEN {[kind |-> "context_done", status |-> 0]} ELSE {})

\* The id field of a session response body; "" when the body does not decode.
SessionResponseIDs == {"sess-1", ""}

---------------------------------------------------------------------------
VARIABLES
    impl,          \* which Logger the program holds: "buffered" (golang/v2/main.go)
                   \* or "single" (the Logger that keeps one trace and no buffer)
    config,        \* Logger.config
    env,           \* the configuration the program starts from: what main() reads
                   \* from its environment, what the caller hands the constructor
    remote,        \* the remote service: its projects and its log streams
    prog,          \* per program: where it is in its initialization, the requests
                   \* it has sent for it, and the projectID, logStreamID and
                   \* accessToken it has resolved so far
    mu,            \* Logger.mu: the goroutine holding it, or Unlocked
    traceBuffer,   \* Logger.traceBuffer
    currentTrace,  \* Logger.currentTrace
    sessionID,     \* Logger.sessionID
    pc,            \* per goroutine: where it is in the method it called
    op,            \* per goroutine: the method it called, with its arguments
    local,         \* per goroutine: the method's local variables
    ret,           \* what the call that returned last returned
    requests,      \* the requests the methods handed to httpClient.Do, in order
    logged,        \* the lines written through the log package, in order
    nextID,        \* uuid.New()
    clock,         \* time.Now()
    ncalls,        \* calls issued so far
    entry,         \* per goroutine in a call: traceBuffer as the call found it under
                   \* the mutex
    history,       \* per trace ID: its fate, the span calls made on it, each with
                   \* its caller and whether another span call was waiting on it,
                   \* and the number of successful flushes that carried it
    discarded      \* the traces a StartTraceWithContext overwrote

vars ==
    <<impl, config, env, remote, prog, mu, traceBuffer, currentTrace, sessionID, pc, op, local, ret, requests,
      logged, nextID, clock, ncalls, entry, history, discarded>>

loggerVars == <<traceBuffer, currentTrace, sessionID>>

setup == <<impl, config, env, remote, prog>>

\* The fields every Logger starts with, whatever its configuration.
InitFields ==
    /\ mu = Unlocked
    /\ traceBuffer = <<>>
    /\ currentTrace = NilTrace
    /\ sessionID = ""
    /\ pc = [g \in Goroutines |-> "idle"]
    /\ op = [g \in Goroutines |-> NoOp]
    /\ local = [g \in Goroutines |-> NoLocal]
    /\ ret = NoReturn
    /\ requests = <<>>
    /\ logged = <<>>
    /\ nextID = 1
    /\ clock = 1
    /\ ncalls = 0
    /\ entry = [g \in Goroutines |-> <<>>]
    /\ history = [id \in {} |-> 0]
    /\ discarded = {}

BufferedConfig ==
    [ProjectName |-> "Default Go Project", LogStreamName |-> "default-go-stream",
     APIKey |-> "key", AuthMethod |-> "api_key"]

\* The remote service holding the project and the log stream of BufferedConfig.
RemoteWithBoth ==
    [projects |-> {[ID |-> ProjectID, Name |-> BufferedConfig.ProjectName, by |-> "remote"]},
     log_streams |-> {[ID |-> LogStreamID, Name |-> BufferedConfig.LogStreamName,
                       Project |-> ProjectID, by |-> "remote"]},
     created |-> 0]

\* A program whose initialization is over and found both identifiers.
Built ==
    [pc |-> "built", resolving |-> "", projectID |-> ProjectID,
     logStreamID |-> LogStreamID, accessToken |-> "", sent |-> <<>>, listing |-> {},
     err |-> "nil"]

\* The Logger is in use: every program has finished its initialization.
Resolved ==
    /\ env = BufferedConfig
    /\ remote = RemoteWithBoth
    /\ prog = [p \in Programs |-> Built]

Init ==
    /\ impl = "buffered"
    /\ config = BufferedConfig
    /\ Resolved
    /\ InitFields

---------------------------------------------------------------------------
\* A goroutine calls a method of the Logger.

Calls ==
    [name : {"StartTraceWithContext"}, cfg : TraceConfigs]
        \cup [name : {"AddSpan"}, cfg : SpanConfigs]
        \cup [name : {"AddLlmSpan"}, cfg : LlmSpanConfigs]
        \cup [name : {"Conclude"}, cfg : ConcludeConfigs]
        \cup [name : {"FlushWithContext"}, cfg : Contexts]
        \cup [name : {"StartSession"}, cfg : SessionNames]

\* Lock() that lets a second goroutine in.
MutexNeverBlocks(g) == TRUE

\* l.mu.Lock() returns only when no goroutine holds the mutex.
MutexAvailable(g) == mu = Unlocked

\* The call of a method, up to its l.mu.Lock(): the goroutine has the mutex at
\* once when it is free, and blocks in Lock() when it is not.
Invoke(g, c) ==
    /\ pc[g] = "idle"
    /\ op' = [op EXCEPT ![g] = c]
    /\ ret' = NoReturn
    /\ IF MutexAvailable(g)
       THEN /\ mu' = g
            /\ pc' = [pc EXCEPT ![g] = "body"]
            /\ entry' = [entry EXCEPT ![g] = traceBuffer]
       ELSE /\ pc' = [pc EXCEPT ![g] = "lock"]
            /\ UNCHANGED <<mu, entry>>
    /\ UNCHANGED <<loggerVars, local, requests, logged, nextID, clock,
                   history, discarded>>

\* Any of the calls, while the run has calls left.
Enter(g, calls) ==
    /\ ncalls < MaxCalls
    /\ ncalls' = ncalls + 1
    /\ \E c \in calls : Invoke(g, c)
    /\ UNCHANGED setup

Call(g) == impl = "buffered" /\ Enter(g, Calls)

\* A goroutine blocked in l.mu.Lock() gets the mutex.
Lock(g) ==
    /\ pc[g] = "lock"
    /\ MutexAvailable(g)
    /\ mu' = g
    /\ pc' = [pc EXCEPT ![g] = "body"]
    /\ entry' = [entry EXCEPT ![g] = traceBuffer]
    /\ UNCHANGED <<setup, loggerVars, op, local, ret, requests, logged, nextID,
                   clock, ncalls, history, discarded>>

\* The return of a method: its deferred l.mu.Unlock() runs, the locals die.
Return(g, value, err) ==
    /\ mu' = Unlocked
    /\ pc' = [pc EXCEPT ![g] = "idle"]
    /\ op' = [op EXCEPT ![g] = NoOp]
    /\ local' = [local EXCEPT ![g] = NoLocal]
    /\ ret' = [value |-> value, err |-> err]
    /\ entry' = [entry EXCEPT ![g] = <<>>]
    /\ UNCHANGED setup

InBody(g, name) == impl = "buffered" /\ pc[g] = "body" /\ op[g].name = name

---------------------------------------------------------------------------
\* StartTraceWithContext

TagsInto(metadata, tags) ==
    IF Len(tags) > 0 THEN MapSet(metadata, "tags", Join(tags)) ELSE metadata

NewTrace(cfg, id, now) ==
    [ID |-> id, Name |-> cfg.Name, Input |-> cfg.Input, Output |-> "",
     Spans |-> <<>>, Metadata |-> TagsInto(cfg.Metadata, cfg.Tags),
     StartTime |-> now, EndTime |-> ZeroTime]

\* The overwritten trace is pushed to the buffer instead of being dropped.
StartTraceEffectKeepingOld(cur, buf, cfg, id, now) ==
    [currentTrace |-> NewTrace(cfg, id, now),
     traceBuffer |-> IF cur = NilTrace THEN buf ELSE Append(buf, cur)]

\* What the method leaves in l.currentTrace and l.traceBuffer.
StartTraceEffect(cur, buf, cfg, id, now) ==
    [currentTrace |-> NewTrace(cfg, id, now), traceBuffer |-> buf]

Discard(h, id) ==
    IF id \in DOMAIN h THEN [h EXCEPT ![id].fate = "discarded"] ELSE h

StartTraceWithContext(g) ==
    /\ InBody(g, "StartTraceWithContext")
    /\ LET eff == StartTraceEffect(currentTrace, traceBuffer, op[g].cfg, nextID, clock)
       IN  /\ currentTrace' = eff.currentTrace
           /\ traceBuffer' = eff.traceBuffer
    /\ nextID' = nextID + 1
    /\ clock' = clock + 1
    /\ history' = MapSet(Discard(history, currentTrace.ID), nextID,
                         [fate |-> "active", calls |-> <<>>, acks |-> 0])
    /\ discarded' = IF currentTrace = NilTrace THEN discarded
                    ELSE discarded \cup {currentTrace}
    /\ Return(g, "", "nil")
    /\ UNCHANGED <<sessionID, requests, logged, ncalls>>

---------------------------------------------------------------------------
\* AddSpan and AddLlmSpan

Warning(name) == "Warning: " \o name \o " called without an active trace."

\* The early return without its log.Println.
WarnEffectSilent(cur, buf, lines, name) ==
    [currentTrace |-> cur, traceBuffer |-> buf, logged |-> lines]

\* The early return of AddSpan, AddLlmSpan and Conclude on a nil currentTrace.
WarnEffect(cur, buf, lines, name) ==
    [currentTrace |-> cur, traceBuffer |-> buf, logged |-> Append(lines, Warning(name))]

\* The early return written before the Unlock, without defer.
WarnAndReturnLocked(g) ==
    /\ impl = "buffered"
    /\ pc[g] = "body"
    /\ op[g].name \in {"AddSpan", "AddLlmSpan", "Conclude"}
    /\ currentTrace = NilTrace
    /\ logged' = Append(logged, Warning(op[g].name))
    /\ pc' = [pc EXCEPT ![g] = "idle"]
    /\ op' = [op EXCEPT ![g] = NoOp]
    /\ ret' = [value |-> "", err |-> "nil"]
    /\ UNCHANGED <<setup, mu, local, entry, loggerVars, requests, nextID, clock,
                   ncalls, history, discarded>>

WarnAndReturn(g) ==
    /\ impl = "buffered"
    /\ pc[g] = "body"
    /\ op[g].name \in {"AddSpan", "AddLlmSpan", "Conclude"}
    /\ currentTrace = NilTrace
    /\ LET eff == WarnEffect(currentTrace, traceBuffer, logged, op[g].name)
       IN  /\ currentTrace' = eff.currentTrace
           /\ traceBuffer' = eff.traceBuffer
           /\ logged' = eff.logged
    /\ Return(g, "", "nil")
    /\ UNCHANGED <<sessionID, requests, nextID, clock, ncalls, history,
                   discarded>>

SpanMetadata(cfg) ==
    LET tagged == TagsInto(cfg.Metadata, cfg.Tags)
    IN  IF cfg.Error # "" THEN MapSet(tagged, "error", cfg.Error) ELSE tagged

NewSpan(cfg, id, now) ==
    [ID |-> id, Name |-> cfg.Name, Input |-> cfg.Input, Output |-> cfg.Output,
     StartTime |-> now, EndTime |-> now + cfg.DurationNs,
     Type |-> IF cfg.Type = "" THEN "tool" ELSE cfg.Type,
     Status |-> IF cfg.Error # "" THEN "ERROR" ELSE "SUCCESS",
     Metadata |-> SpanMetadata(cfg)]

\* The keys of the caller's map win over the model and the token counts.
LlmMetadataCallerWins(cfg) ==
    TagsInto(cfg.Metadata, cfg.Tags)
        @@ [k \in {"model"} |-> cfg.Model]
        @@ [k \in {"llm.token_count.input"} |-> cfg.NumInputTokens]
        @@ [k \in {"llm.token_count.output"} |-> cfg.NumOutputTokens]
        @@ [k \in {"llm.token_count.total"} |-> cfg.TotalTokens]

LlmMetadata(cfg) ==
    MapSet(MapSet(MapSet(MapSet(TagsInto(cfg.Metadata, cfg.Tags),
        "model", cfg.Model),
        "llm.token_count.input", cfg.NumInputTokens),
        "llm.token_count.output", cfg.NumOutputTokens),
        "llm.token_count.total", cfg.TotalTokens)

NewLlmSpan(cfg, id, now) ==
    [ID |-> id, Name |-> "llm-span", Input |-> cfg.Input, Output |-> cfg.Output,
     StartTime |-> now, EndTime |-> now + cfg.DurationNs, Type |-> "llm",
     Status |-> "SUCCESS", Metadata |-> LlmMetadata(cfg)]

\* The span is built and the operand of append, l.currentTrace.Spans, is read.
BuildSpan(g) ==
    /\ impl = "buffered"
    /\ pc[g] = "body"
    /\ op[g].name \in {"AddSpan", "AddLlmSpan"}
    /\ currentTrace # NilTrace
    /\ local' = [local EXCEPT ![g] =
                    [span |-> IF op[g].name = "AddSpan"
                              THEN NewSpan(op[g].cfg, nextID, clock)
                              ELSE NewLlmSpan(op[g].cfg, nextID, clock),
                     spans |-> currentTrace.Spans]]
    /\ pc' = [pc EXCEPT ![g] = "append"]
    /\ nextID' = nextID + 1
    /\ clock' = clock + 1
    /\ UNCHANGED setup
    /\ UNCHANGED <<mu, loggerVars, op, ret, requests, logged, ncalls, history,
                   discarded, entry>>

\* The new span put in front.
AppendSpanInFront(spans, span) == <<span>> \o spans

\* append(spans, span)
AppendSpan(spans, span) == Append(spans, span)

RecordCall(h, id, call) ==
    IF id \in DOMAIN h THEN [h EXCEPT ![id].calls = Append(@, call)] ELSE h

\* l.currentTrace.Spans = append(l.currentTrace.Spans, span), and the return.
StoreSpans(g) ==
    /\ impl = "buffered"
    /\ pc[g] = "append"
    /\ currentTrace' =
           [currentTrace EXCEPT !.Spans = AppendSpan(local[g].spans, local[g].span)]
    /\ history' = RecordCall(history, currentTrace.ID,
           [name |-> op[g].name, cfg |-> op[g].cfg,
            overlapped |-> \E h \in Goroutines \ {g} :
                              pc[h] = "lock" /\ op[h].name \in {"AddSpan", "AddLlmSpan"}])
    /\ Return(g, "", "nil")
    /\ UNCHANGED <<traceBuffer, sessionID, requests, logged, nextID, clock,
                   ncalls, discarded>>

---------------------------------------------------------------------------
\* Conclude

\* The completion tags stored under the key of the start tags.
CompletionTagsOverStartTags(metadata, tags) ==
    IF Len(tags) > 0 THEN MapSet(metadata, "tags", Join(tags)) ELSE metadata

CompletionTagsInto(metadata, tags) ==
    IF Len(tags) > 0 THEN MapSet(metadata, "completion_tags", Join(tags))
    ELSE metadata

Concluded(trace, cfg) ==
    [trace EXCEPT !.Output = cfg.Output,
                  !.EndTime = trace.StartTime + cfg.DurationNs,
                  !.Metadata = CompletionTagsInto(trace.Metadata, cfg.Tags)]

\* The concluded trace put at the head of the buffer.
ConcludeEffectAtHead(cur, buf, cfg) ==
    [traceBuffer |-> <<Concluded(cur, cfg)>> \o buf, currentTrace |-> NilTrace]

\* l.currentTrace = nil left out.
ConcludeEffectKeepingCurrent(cur, buf, cfg) ==
    [traceBuffer |-> Append(buf, Concluded(cur, cfg)),
     currentTrace |-> Concluded(cur, cfg)]

\* What the method leaves in l.traceBuffer and l.currentTrace.
ConcludeEffect(cur, buf, cfg) ==
    [traceBuffer |-> Append(buf, Concluded(cur, cfg)), currentTrace |-> NilTrace]

MarkConcluded(h, id) ==
    IF id \in DOMAIN h THEN [h EXCEPT ![id].fate = "concluded"] ELSE h

Conclude(g) ==
    /\ InBody(g, "Conclude")
    /\ currentTrace # NilTrace
    /\ LET eff == ConcludeEffect(currentTrace, traceBuffer, op[g].cfg)
       IN  /\ traceBuffer' = eff.traceBuffer
           /\ currentTrace' = eff.currentTrace
    /\ history' = MarkConcluded(history, currentTrace.ID)
    /\ Return(g, "", "nil")
    /\ UNCHANGED <<sessionID, requests, logged, nextID, clock, ncalls,
                   discarded>>

---------------------------------------------------------------------------
\* encoding/json over the struct tags of GalileoSpan, GalileoTrace and
\* LogTracesIngestRequest: the json names, and omitempty where it is tagged.

Field(name, value, omitted) == IF omitted THEN EmptyMap ELSE name :> value

JSONSpan(s) ==
    [id |-> s.ID, name |-> s.Name, start_time |-> s.StartTime,
     end_time |-> s.EndTime, type |-> s.Type]
        @@ Field("input", s.Input, s.Input = NilValue)
        @@ Field("output", s.Output, s.Output = NilValue)
        @@ Field("status", s.Status, s.Status = "")
        @@ Field("metadata", s.Metadata, DOMAIN s.Metadata = {})

JSONTrace(t) ==
    [id |-> t.ID, input |-> t.Input,
     spans |-> [i \in DOMAIN t.Spans |-> JSONSpan(t.Spans[i])],
     start_time |-> t.StartTime, end_time |-> t.EndTime]
        @@ Field("name", t.Name, t.Name = "")
        @@ Field("output", t.Output, t.Output = "")
        @@ Field("user_metadata", t.Metadata, DOMAIN t.Metadata = {})

\* Only the head of the buffer goes into the payload.
JSONIngestRequestFirstTrace(r) ==
    [log_stream_id |-> r.LogStreamID,
     traces |-> [i \in DOMAIN r.Traces \cap {1} |-> JSONTrace(r.Traces[i])]]
        @@ Field("session_id", r.SessionID, r.SessionID = "")

JSONIngestRequest(r) ==
    [log_stream_id |-> r.LogStreamID,
     traces |-> [i \in DOMAIN r.Traces |-> JSONTrace(r.Traces[i])]]
        @@ Field("session_id", r.SessionID, r.SessionID = "")

\* json.Marshal fails on a value it has no encoding for.
MarshalFails(r) ==
    \E i \in DOMAIN r.Traces : \E j \in DOMAIN r.Traces[i].Spans :
        Unmarshalable \in {r.Traces[i].Spans[j].Input, r.Traces[i].Spans[j].Output}

---------------------------------------------------------------------------
\* FlushWithContext

IsSuccess(outcome) == outcome.kind = "status" /\ outcome.status \in {200, 201}

\* l.traceBuffer = make([]*GalileoTrace, 0) left out: the buffer is always kept.
FlushEffectKeepingAll(buf, outcome) == buf

\* The status check left out: any response clears the buffer.
FlushEffectAnyStatus(buf, outcome) ==
    IF outcome.kind = "status" THEN <<>> ELSE buf

\* The buffer swapped out before the send and put back only on a bad status.
FlushEffectNoRestoreOnDoError(buf, outcome) ==
    IF outcome.kind = "status" /\ ~IsSuccess(outcome) THEN buf ELSE <<>>

\* What FlushWithContext leaves in l.traceBuffer once httpClient.Do is back.
FlushEffect(buf, outcome) == IF IsSuccess(outcome) THEN <<>> ELSE buf

\* The error of httpClient.Do, as *url.Error words it.
DoError(outcome) ==
    IF outcome.kind = "context_done" THEN "context canceled" ELSE "connection refused"

FlushError(outcome) ==
    IF outcome.kind # "status" THEN "failed to flush traces: " \o DoError(outcome)
    ELSE IF IsSuccess(outcome) THEN "nil"
    ELSE "flush failed with status"

\* The fields NewLoggerWithConfig resolved for the Logger in use.
projectID == prog[Main].projectID

logStreamID == prog[Main].logStreamID

accessToken == prog[Main].accessToken

\* Every request carries the API key where it should carry the token.
setAuthHeaderAlwaysKey(cfg, token) == [name |-> "Galileo-API-Key", value |-> cfg.APIKey]

\* The header setAuthHeader puts on a request.
setAuthHeader(cfg, token) ==
    IF cfg.AuthMethod = "bearer_token"
    THEN [name |-> "Authorization", value |-> "Bearer " \o token]
    ELSE [name |-> "Galileo-API-Key", value |-> cfg.APIKey]

NoAuthHeader == [name |-> "", value |-> ""]

\* The request is sent again when it is not answered at once.
SubmissionsWithRetry(req) == <<req, req>>

\* What one httpClient.Do(req) puts on the wire.
Submissions(req) == <<req>>

TracesPath == "/projects/" \o projectID \o "/traces"

SessionsPath == "/projects/" \o projectID \o "/sessions"

\* Close() is FlushWithContext(context.Background()) with the result dropped.
FlushCalls == {"FlushWithContext", "Close"}

InFlush(g) == impl = "buffered" /\ pc[g] = "body" /\ op[g].name \in FlushCalls

FlushReturn(g, err) == Return(g, "", IF op[g].name = "Close" THEN NoReturn.err ELSE err)

\* SessionID: l.sessionID left out of the request.
IngestRequestWithoutSession ==
    [LogStreamID |-> logStreamID, SessionID |-> "", Traces |-> traceBuffer]

IngestRequest == [LogStreamID |-> logStreamID, SessionID |-> sessionID,
                  Traces |-> traceBuffer]

\* The test of len(l.traceBuffer) left out: the empty batch is posted.
FlushEmptyPosted(g) ==
    /\ InFlush(g)
    /\ Len(traceBuffer) = 0
    /\ requests' = Append(requests,
           [method |-> "POST", path |-> TracesPath,
            auth |-> setAuthHeader(config, accessToken),
            body |-> JSONIngestRequest(IngestRequest)])
    /\ FlushReturn(g, "nil")
    /\ UNCHANGED <<loggerVars, logged, nextID, clock, ncalls, history, discarded>>

FlushEmpty(g) ==
    /\ InFlush(g)
    /\ Len(traceBuffer) = 0
    /\ FlushReturn(g, "nil")
    /\ UNCHANGED <<loggerVars, requests, logged, nextID, clock, ncalls,
                   history, discarded>>

FlushMarshalError(g) ==
    /\ InFlush(g)
    /\ Len(traceBuffer) # 0
    /\ MarshalFails(IngestRequest)
    /\ FlushReturn(g, "failed to marshal traces")
    /\ UNCHANGED <<loggerVars, requests, logged, nextID, clock, ncalls,
                   history, discarded>>

\* http.NewRequestWithContext refuses a nil context.
FlushRequestError(g) ==
    /\ InFlush(g)
    /\ Len(traceBuffer) # 0
    /\ ~MarshalFails(IngestRequest)
    /\ op[g].cfg = "nil"
    /\ FlushReturn(g, "failed to create flush request")
    /\ UNCHANGED <<loggerVars, requests, logged, nextID, clock, ncalls,
                   history, discarded>>

\* l.httpClient.Do(req) is entered; the goroutine blocks in it.
FlushDo(g) ==
    /\ InFlush(g)
    /\ Len(traceBuffer) # 0
    /\ ~MarshalFails(IngestRequest)
    /\ op[g].cfg # "nil"
    /\ requests' = requests \o Submissions(
           [method |-> "POST", path |-> TracesPath,
            auth |-> setAuthHeader(config, accessToken),
            body |-> JSONIngestRequest(IngestRequest)])
    /\ pc' = [pc EXCEPT ![g] = "inflight"]
    /\ UNCHANGED setup
    /\ UNCHANGED <<mu, loggerVars, op, local, ret, logged, nextID, clock,
                   ncalls, history, discarded, entry>>

\* l.httpClient.Do(req) comes back, and the method runs to its return.
FlushDone(g) ==
    /\ impl = "buffered"
    /\ pc[g] = "inflight"
    /\ op[g].name \in FlushCalls
    /\ \E outcome \in DoOutcomes(op[g].cfg) :
           /\ traceBuffer' = FlushEffect(traceBuffer, outcome)
           /\ history' = [id \in DOMAIN history |->
                  IF IsSuccess(outcome) /\ \E i \in DOMAIN traceBuffer : traceBuffer[i].ID = id
                  THEN [history[id] EXCEPT !.acks = @ + 1] ELSE history[id]]
           /\ FlushReturn(g, FlushError(outcome))
    /\ UNCHANGED <<currentTrace, sessionID, requests, logged, nextID, clock,
                   ncalls, discarded>>

---------------------------------------------------------------------------
\* StartSession

SessionDo(g) ==
    /\ InBody(g, "StartSession")
    /\ requests' = requests \o Submissions(
           [method |-> "POST", path |-> SessionsPath,
            auth |-> setAuthHeader(config, accessToken),
            body |-> [name |-> op[g].cfg, log_stream_id |-> logStreamID]])
    /\ pc' = [pc EXCEPT ![g] = "inflight"]
    /\ UNCHANGED setup
    /\ UNCHANGED <<mu, loggerVars, op, local, ret, logged, nextID, clock,
                   ncalls, history, discarded, entry>>

SessionFailed(g) ==
    /\ impl = "buffered"
    /\ pc[g] = "inflight"
    /\ op[g].name = "StartSession"
    /\ \E outcome \in DoOutcomes("background") :
           /\ ~IsSuccess(outcome)
           /\ Return(g, "", IF outcome.kind = "status"
                            THEN "session creation failed with status"
                            ELSE DoError(outcome))
    /\ UNCHANGED <<loggerVars, requests, logged, nextID, clock, ncalls,
                   history, discarded>>

SessionStarted(g) ==
    /\ impl = "buffered"
    /\ pc[g] = "inflight"
    /\ op[g].name = "StartSession"
    /\ \E outcome \in DoOutcomes("background"), id \in SessionResponseIDs :
           /\ IsSuccess(outcome)
           /\ sessionID' = id
           /\ Return(g, id, "nil")
    /\ UNCHANGED <<traceBuffer, currentTrace, requests, logged, nextID, clock,
                   ncalls, history, discarded>>

---------------------------------------------------------------------------
Next ==
    \E g \in Goroutines :
        \/ Call(g)
        \/ Lock(g)
        \/ StartTraceWithContext(g)
        \/ WarnAndReturn(g)
        \/ BuildSpan(g)
        \/ StoreSpans(g)
        \/ Conclude(g)
        \/ FlushEmpty(g)
        \/ FlushMarshalError(g)
        \/ FlushRequestError(g)
        \/ FlushDo(g)
        \/ FlushDone(g)
        \/ SessionDo(g)
        \/ SessionFailed(g)
        \/ SessionStarted(g)

Spec == Init /\ [][Next]_vars

\* The scheduling of the goroutines: a goroutine that can run does run, a
\* pending httpClient.Do comes back, and sync.Mutex hands the mutex to a
\* goroutine that keeps waiting in Lock() (its starvation mode).
SpecLive ==
    /\ Spec
    /\ \A g \in Goroutines :
           /\ SF_vars(Lock(g))
           /\ WF_vars(\/ StartTraceWithContext(g) \/ WarnAndReturn(g)
                      \/ BuildSpan(g) \/ StoreSpans(g) \/ Conclude(g)
                      \/ FlushEmpty(g) \/ FlushMarshalError(g)
                      \/ FlushRequestError(g) \/ FlushDo(g) \/ FlushDone(g)
                      \/ SessionDo(g) \/ SessionFailed(g) \/ SessionStarted(g))

---------------------------------------------------------------------------
(***************************************************************************)
(* The second Logger of the repository: it has a configuration with a      *)
(* dry-run switch, one currentTrace and no buffer, and FlushWithContext    *)
(* submits currentTrace itself.  Its Trace and Span carry no identifier;   *)
(* the ID of the records below is the identity of the allocation (the      *)
(* pointer &Trace{...}, &Span{...}) and is not serialized.                 *)
(***************************************************************************)

SingleLoggerConfigs ==
    { [ProjectID |-> "proj-1", LogStreamID |-> "ls-1", APIKey |-> "key",
       BaseURL |-> "", DryRun |-> FALSE],
      [ProjectID |-> "proj-1", LogStreamID |-> "ls-1", APIKey |-> "",
       BaseURL |-> "", DryRun |-> FALSE] }

SingleTraceConfigs ==
    { [Input |-> "q1", Tags |-> <<"llm-with-tool", "weather">>],
      [Input |-> "q2", Tags |-> <<>>] }

SingleSpanConfigs ==
    { [Name |-> "get_weather", Input |-> "in1", Output |-> "out1", DurationNs |-> 5,
       Tags |-> <<"tool">>, Metadata |-> EmptyMap],
      [Name |-> "stream", Input |-> Unmarshalable, Output |-> NilValue,
       DurationNs |-> 0, Tags |-> <<>>, Metadata |-> [step |-> "2"]] }

SingleCalls ==
    [name : {"StartTraceWithContext"}, cfg : SingleTraceConfigs]
        \cup [name : {"AddSpan"}, cfg : SingleSpanConfigs]
        \cup [name : {"AddLlmSpan"}, cfg : LlmSpanConfigs]
        \cup [name : {"Conclude"}, cfg : ConcludeConfigs]
        \cup [name : {"FlushWithContext"}, cfg : Contexts]

\* Only the missing API key switches dry-run mode on.
SingleNewLoggerConfigKeyOnly(c) ==
    LET based == IF c.BaseURL = "" THEN [c EXCEPT !.BaseURL = "https://api.galileo.ai/v2"]
                 ELSE c
    IN  IF based.APIKey = "" THEN [based EXCEPT !.DryRun = TRUE] ELSE based

\* NewLoggerWithConfig
SingleNewLoggerConfig(c) ==
    LET based == IF c.BaseURL = "" THEN [c EXCEPT !.BaseURL = "https://api.galileo.ai/v2"]
                 ELSE c
        keyed == IF based.APIKey = "" THEN [based EXCEPT !.DryRun = TRUE] ELSE based
        projected == IF ~keyed.DryRun /\ keyed.ProjectID = ""
                     THEN [keyed EXCEPT !.DryRun = TRUE] ELSE keyed
    IN  IF ~projected.DryRun /\ projected.LogStreamID = ""
        THEN [projected EXCEPT !.DryRun = TRUE] ELSE projected

InitSingle ==
    /\ impl = "single"
    /\ config \in {SingleNewLoggerConfig(c) : c \in SingleLoggerConfigs}
    /\ Resolved
    /\ InitFields

SingleCall(g) == impl = "single" /\ Enter(g, SingleCalls)

SingleInBody(g, name) == impl = "single" /\ pc[g] = "body" /\ op[g].name = name

SingleNewTrace(cfg, id) ==
    [ID |-> id, Input |-> cfg.Input, Output |-> "", DurationNs |-> 0,
     Spans |-> <<>>, Tags |-> cfg.Tags, Metadata |-> EmptyMap]

SingleStartTrace(g) ==
    /\ SingleInBody(g, "StartTraceWithContext")
    /\ currentTrace' = SingleNewTrace(op[g].cfg, nextID)
    /\ nextID' = nextID + 1
    /\ history' = MapSet(Discard(history, currentTrace.ID), nextID,
                         [fate |-> "active", calls |-> <<>>, acks |-> 0])
    /\ discarded' = IF currentTrace = NilTrace THEN discarded
                    ELSE discarded \cup {currentTrace}
    /\ Return(g, "", "nil")
    /\ UNCHANGED <<traceBuffer, sessionID, requests, logged, clock, ncalls>>

\* AddSpan, AddLlmSpan and Conclude return at once on a nil currentTrace.
SingleNoTrace(g) ==
    /\ impl = "single"
    /\ pc[g] = "body"
    /\ op[g].name \in {"AddSpan", "AddLlmSpan", "Conclude"}
    /\ currentTrace = NilTrace
    /\ Return(g, "", "nil")
    /\ UNCHANGED <<loggerVars, requests, logged, nextID, clock, ncalls, history,
                   discarded>>

SingleNewSpan(cfg, id) ==
    [ID |-> id, Name |-> cfg.Name, Input |-> cfg.Input, Output |-> cfg.Output,
     DurationNs |-> cfg.DurationNs, Metadata |-> cfg.Metadata, Tags |-> cfg.Tags]

SingleLlmMetadata(cfg) ==
    MapSet(MapSet(MapSet(MapSet(cfg.Metadata,
        "model", cfg.Model),
        "num_input_tokens", cfg.NumInputTokens),
        "num_output_tokens", cfg.NumOutputTokens),
        "total_tokens", cfg.TotalTokens)

SingleNewLlmSpan(cfg, id) ==
    [ID |-> id, Name |-> "llm", Input |-> cfg.Input, Output |-> cfg.Output,
     DurationNs |-> cfg.DurationNs, Metadata |-> SingleLlmMetadata(cfg),
     Tags |-> cfg.Tags]

SingleBuildSpan(g) ==
    /\ impl = "single"
    /\ pc[g] = "body"
    /\ op[g].name \in {"AddSpan", "AddLlmSpan"}
    /\ currentTrace # NilTrace
    /\ local' = [local EXCEPT ![g] =
                    [span |-> IF op[g].name = "AddSpan"
                              THEN SingleNewSpan(op[g].cfg, nextID)
                              ELSE SingleNewLlmSpan(op[g].cfg, nextID),
                     spans |-> currentTrace.Spans]]
    /\ pc' = [pc EXCEPT ![g] = "append"]
    /\ nextID' = nextID + 1
    /\ UNCHANGED setup
    /\ UNCHANGED <<mu, loggerVars, op, ret, requests, logged, clock, ncalls, entry,
                   history, discarded>>

SingleStoreSpans(g) ==
    /\ impl = "single"
    /\ pc[g] = "append"
    /\ currentTrace' =
           [currentTrace EXCEPT !.Spans = AppendSpan(local[g].spans, local[g].span)]
    /\ history' = RecordCall(history, currentTrace.ID,
           [name |-> op[g].name, cfg |-> op[g].cfg,
            overlapped |-> \E h \in Goroutines \ {g} :
                              pc[h] = "lock" /\ op[h].name \in {"AddSpan", "AddLlmSpan"}])
    /\ Return(g, IF op[g].name = "AddSpan" THEN local[g].span.ID ELSE "", "nil")
    /\ UNCHANGED <<traceBuffer, sessionID, requests, logged, nextID, clock, ncalls,
                   discarded>>

SingleConcluded(trace, cfg) ==
    [trace EXCEPT !.Output = cfg.Output,
                  !.DurationNs = cfg.DurationNs,
                  !.Tags = trace.Tags \o cfg.Tags]

SingleConclude(g) ==
    /\ SingleInBody(g, "Conclude")
    /\ currentTrace # NilTrace
    /\ currentTrace' = SingleConcluded(currentTrace, op[g].cfg)
    /\ history' = MarkConcluded(history, currentTrace.ID)
    /\ Return(g, "", "nil")
    /\ UNCHANGED <<traceBuffer, sessionID, requests, logged, nextID, clock, ncalls,
                   discarded>>

\* encoding/json over the struct tags of Span and Trace, and the events wrapper.
SingleJSONSpan(sp) ==
    [name |-> sp.Name, input |-> sp.Input, output |-> sp.Output,
     duration_ns |-> sp.DurationNs, metadata |-> sp.Metadata, tags |-> sp.Tags]

SingleJSONTrace(t) ==
    [input |-> t.Input,
     spans |-> [i \in DOMAIN t.Spans |-> SingleJSONSpan(t.Spans[i])],
     tags |-> t.Tags]
        @@ Field("output", t.Output, t.Output = "")
        @@ Field("duration_ns", t.DurationNs, t.DurationNs = 0)
        @@ Field("metadata", t.Metadata, DOMAIN t.Metadata = {})

SingleEvents(t) == [events |-> <<SingleJSONTrace(t)>>]

SingleMarshalFails(t) ==
    \E j \in DOMAIN t.Spans : Unmarshalable \in {t.Spans[j].Input, t.Spans[j].Output}

EventsPath ==
    "/projects/" \o config.ProjectID \o "/log_streams/" \o config.LogStreamID
        \o "/events"

SingleFlushNoTrace(g) ==
    /\ SingleInBody(g, "FlushWithContext")
    /\ currentTrace = NilTrace
    /\ Return(g, "", "no trace to flush")
    /\ UNCHANGED <<loggerVars, requests, logged, nextID, clock, ncalls, history,
                   discarded>>

\* currentTrace is set to nil, and set back when json.MarshalIndent fails.
SingleFlushMarshalError(g) ==
    /\ SingleInBody(g, "FlushWithContext")
    /\ currentTrace # NilTrace
    /\ SingleMarshalFails(currentTrace)
    /\ Return(g, "", "failed to serialize trace")
    /\ UNCHANGED <<loggerVars, requests, logged, nextID, clock, ncalls, history,
                   discarded>>

SingleFlushDryRun(g) ==
    /\ SingleInBody(g, "FlushWithContext")
    /\ currentTrace # NilTrace
    /\ ~SingleMarshalFails(currentTrace)
    /\ config.DryRun
    /\ currentTrace' = NilTrace
    /\ logged' = logged \o <<"Dry Run: Trace data:", SingleEvents(currentTrace)>>
    /\ Return(g, "", "nil")
    /\ UNCHANGED <<traceBuffer, sessionID, requests, nextID, clock, ncalls, history,
                   discarded>>

\* currentTrace is set to nil, and set back when http.NewRequestWithContext
\* refuses the nil context.
SingleFlushRequestError(g) ==
    /\ SingleInBody(g, "FlushWithContext")
    /\ currentTrace # NilTrace
    /\ ~SingleMarshalFails(currentTrace)
    /\ ~config.DryRun
    /\ op[g].cfg = "nil"
    /\ Return(g, "", "failed to create request")
    /\ UNCHANGED <<loggerVars, requests, logged, nextID, clock, ncalls, history,
                   discarded>>

SingleFlushDo(g) ==
    /\ SingleInBody(g, "FlushWithContext")
    /\ currentTrace # NilTrace
    /\ ~SingleMarshalFails(currentTrace)
    /\ ~config.DryRun
    /\ op[g].cfg # "nil"
    /\ local' = [local EXCEPT ![g] = [traceToFlush |-> currentTrace]]
    /\ currentTrace' = NilTrace
    /\ requests' = requests \o Submissions(
           [method |-> "POST", path |-> EventsPath,
            auth |-> [name |-> "Authorization", value |-> "Bearer " \o config.APIKey],
            body |-> SingleEvents(currentTrace)])
    /\ pc' = [pc EXCEPT ![g] = "inflight"]
    /\ UNCHANGED setup
    /\ UNCHANGED <<mu, traceBuffer, sessionID, op, ret, logged, nextID, clock,
                   ncalls, entry, history, discarded>>

SingleFlushError(outcome) ==
    IF outcome.kind # "status" THEN "failed to send trace to Galileo: " \o DoError(outcome)
    ELSE "failed to log trace, status code"

\* The failed flush without l.currentTrace = traceToFlush.
SingleFlushFailedNoRestore(g) ==
    /\ impl = "single"
    /\ pc[g] = "inflight"
    /\ \E outcome \in DoOutcomes(op[g].cfg) :
           /\ ~IsSuccess(outcome)
           /\ Return(g, "", SingleFlushError(outcome))
    /\ UNCHANGED <<loggerVars, requests, logged, nextID, clock, ncalls, history,
                   discarded>>

\* httpClient.Do fails or answers with a status other than 200 and 201:
\* currentTrace is set back.
SingleFlushFailed(g) ==
    /\ impl = "single"
    /\ pc[g] = "inflight"
    /\ \E outcome \in DoOutcomes(op[g].cfg) :
           /\ ~IsSuccess(outcome)
           /\ currentTrace' = local[g].traceToFlush
           /\ Return(g, "", SingleFlushError(outcome))
    /\ UNCHANGED <<traceBuffer, sessionID, requests, logged, nextID, clock, ncalls,
                   history, discarded>>

SingleFlushSent(g) ==
    /\ impl = "single"
    /\ pc[g] = "inflight"
    /\ \E outcome \in DoOutcomes(op[g].cfg) : IsSuccess(outcome)
    /\ Return(g, "", "nil")
    /\ UNCHANGED <<loggerVars, requests, logged, nextID, clock, ncalls, history,
                   discarded>>

NextSingle ==
    \E g \in Goroutines :
        \/ SingleCall(g)
        \/ Lock(g)
        \/ SingleStartTrace(g)
        \/ SingleNoTrace(g)
        \/ SingleBuildSpan(g)
        \/ SingleStoreSpans(g)
        \/ SingleConclude(g)
        \/ SingleFlushNoTrace(g)
        \/ SingleFlushMarshalError(g)
        \/ SingleFlushDryRun(g)
        \/ SingleFlushRequestError(g)
        \/ SingleFlushDo(g)
        \/ SingleFlushFailed(g)
        \/ SingleFlushSent(g)

SpecSingle == InitSingle /\ [][NextSingle]_vars

\* Either Logger.
SpecBoth == (Init \/ InitSingle) /\ [][Next \/ NextSingle]_vars

---------------------------------------------------------------------------
(***************************************************************************)
(* Initialization.  Each program resolves the identifiers of its project   *)
(* and its log stream against the remote service before its Logger is in   *)
(* use: NewLoggerWithConfig of golang/v2/main.go does it inside the        *)
(* constructor (and calls log.Fatal on every failure), the main() of the   *)
(* single-trace Logger does it with getOrCreateProjectID and               *)
(* getOrCreateLogStreamID before it calls the constructor.                 *)
(* The programs run as separate processes against one remote service.      *)
(***************************************************************************)

\* What main() can find in its environment.
Envs ==
    [ProjectName : {BufferedConfig.ProjectName},
     LogStreamName : {BufferedConfig.LogStreamName},
     APIKey : {"key", ""},
     AuthMethod : {"api_key", "bearer_token"}]

\* The access token of a login response.
Token == "tok-1"

\* A response body: the JSON the client expects, JSON without the id (or the
\* access_token) field, or bytes that are not JSON.
Bodies == {"ok", "no_id", "garbled"}

\* What the remote service answers to a request of the initialization.
Responses ==
    [kind : {"status"}, status : Statuses, body : Bodies]
        \cup {[kind |-> "network_error", status |-> 0, body |-> ""]}

Kinds == {"project", "log_stream"}

OtherProject == [ID |-> "proj-0", Name |-> "Default Go Project (old)", by |-> "remote"]

OtherLogStream ==
    [ID |-> "ls-0", Name |-> "default-go-stream-old", Project |-> ProjectID,
     by |-> "remote"]

\* The remote service before the programs start.
Remotes ==
    { [projects |-> {}, log_streams |-> {}, created |-> 0],
      [projects |-> {OtherProject}, log_streams |-> {}, created |-> 0],
      [projects |-> RemoteWithBoth.projects \cup {OtherProject},
       log_streams |-> {OtherLogStream}, created |-> 0],
      [projects |-> RemoteWithBoth.projects \cup {OtherProject},
       log_streams |-> RemoteWithBoth.log_streams \cup {OtherLogStream},
       created |-> 0] }

\* A program that has not begun its initialization.
Starting ==
    [pc |-> "start", resolving |-> "project", projectID |-> "", logStreamID |-> "",
     accessToken |-> "", sent |-> <<>>,
     listing |-> [k \in Kinds |-> [got |-> FALSE, entries |-> {}]],
     err |-> "nil"]

RequestedName(kind) == IF kind = "project" THEN env.ProjectName ELSE env.LogStreamName

ListPath(kind, pid) ==
    IF kind = "log_stream" THEN "/projects/" \o pid \o "/log_streams"
    ELSE IF impl = "buffered" THEN "/projects/all"
    ELSE "/projects?name=" \o env.ProjectName

CreatePath(kind, pid) ==
    IF kind = "log_stream" THEN "/projects/" \o pid \o "/log_streams" ELSE "/projects"

\* The Authorization the initialization puts on its requests: setAuthHeader
\* in the constructor of the buffered Logger, makeAPIRequest for the other.
InitAuthHeader(p) ==
    IF impl = "buffered" THEN setAuthHeader(config, prog[p].accessToken)
    ELSE [name |-> "Authorization", value |-> "Bearer " \o env.APIKey]

\* What the remote service lists on a lookup.
Entries(kind, pid) ==
    IF kind = "project" THEN remote.projects
    ELSE {ls \in remote.log_streams : ls.Project = pid}

\* The listing is not looked at: the resource is created in any case.
CandidatesNone(listing, name, kind) == {}

\* Every entry of the listing passes for the one asked for.
CandidatesAnyEntry(listing, name, kind) == listing

\* The entries of a listing the lookup can return: the loops of
\* getOrCreateProject, getOrCreateLogStream and getProjectIDByName stop at the
\* first entry with the requested name, getLogStreamIDByName takes Data[0].
Candidates(listing, name, kind) ==
    IF impl = "single" /\ kind = "log_stream" THEN listing
    ELSE {e \in listing : e.Name = name}

\* The lookup ends in an error: always on a transport error, and for
\* getProjectIDByName and getLogStreamIDByName also on a status other than 200
\* and on a body that does not decode.
LookupErr(r) ==
    \/ r.kind = "network_error"
    \/ impl = "single" /\ (r.status # 200 \/ r.body = "garbled")

\* The entries the lookup decoded: none unless the status is 200, and none
\* from a body json.Decode gave up on.
Decoded(r, kind, pid) ==
    IF r.kind = "status" /\ r.status = 200 /\ r.body # "garbled" THEN Entries(kind, pid)
    ELSE {}

\* The remote service has created the resource.
Accepted(r) == r.kind = "status" /\ r.status \in {200, 201}

\* The create call ends in an error.
CreateErr(r) ==
    \/ r.kind = "network_error"
    \/ impl = "buffered" /\ r.status \notin {200, 201}
    \/ impl = "single" /\ (r.status # 201 \/ r.body = "garbled")

NewID(kind) ==
    (IF kind = "project" THEN "proj-new-" ELSE "ls-new-") \o ToString(remote.created + 1)

RemoteAfterCreate(p, kind) ==
    IF kind = "project"
    THEN [remote EXCEPT !.created = @ + 1,
                        !.projects = @ \cup {[ID |-> NewID(kind),
                                              Name |-> RequestedName(kind), by |-> p]}]
    ELSE [remote EXCEPT !.created = @ + 1,
                        !.log_streams = @ \cup {[ID |-> NewID(kind),
                                                 Name |-> RequestedName(kind),
                                                 Project |-> prog[p].projectID,
                                                 by |-> p]}]

\* The identifier is stored, and the initialization goes on: from the project
\* to the log stream, from the log stream to the end.  The main() of the
\* single-trace Logger skips the log stream when it has no project ID.
Resolve(st, id) ==
    IF st.resolving = "project"
    THEN IF impl = "single" /\ id = ""
         THEN [st EXCEPT !.projectID = id, !.pc = "built", !.resolving = ""]
         ELSE [st EXCEPT !.projectID = id, !.pc = "resolve", !.resolving = "log_stream"]
    ELSE [st EXCEPT !.logStreamID = id, !.pc = "built", !.resolving = ""]

\* The error ends the initialization: log.Fatal in NewLoggerWithConfig (the
\* message goes to the log and the process exits with status 1), an
\* error value handed to main() by getOrCreateProjectID/getOrCreateLogStreamID.
Failed(st, msg) ==
    [st EXCEPT !.pc = IF impl = "buffered" THEN "fatal" ELSE "failed", !.err = msg]

ResolveError(kind) ==
    IF kind = "project" THEN "Failed to get or create project"
    ELSE "Failed to get or create log stream"

bootVars ==
    <<impl, config, env, mu, traceBuffer, currentTrace, sessionID, pc, op, local, ret,
      requests, logged, nextID, clock, ncalls, entry, history, discarded>>

\* NewLoggerWithConfig: log.Fatal("GALILEO_API_KEY must be provided").
NewLoggerNoKey(p) ==
    /\ impl = "buffered"
    /\ prog[p].pc = "start"
    /\ config.APIKey = ""
    /\ prog' = [prog EXCEPT ![p] = Failed(@, "GALILEO_API_KEY must be provided")]
    /\ UNCHANGED <<bootVars, remote>>

\* main() of the single-trace Logger: without an API key nothing is resolved.
SingleNoKey(p) ==
    /\ impl = "single"
    /\ prog[p].pc = "start"
    /\ env.APIKey = ""
    /\ prog' = [prog EXCEPT ![p] = [@ EXCEPT !.pc = "built", !.resolving = ""]]
    /\ UNCHANGED <<bootVars, remote>>

\* getAccessToken, up to its httpClient.Do.
LoginDo(p) ==
    /\ impl = "buffered"
    /\ prog[p].pc = "start"
    /\ config.APIKey # ""
    /\ config.AuthMethod = "bearer_token"
    /\ prog' = [prog EXCEPT ![p] =
           [@ EXCEPT !.pc = "login",
                     !.sent = @ \o Submissions(
                         [method |-> "POST", path |-> "/login/api_key", auth |-> NoAuthHeader,
                          body |-> [api_key |-> config.APIKey]])]]
    /\ UNCHANGED <<bootVars, remote>>

LoginFailed(p) ==
    /\ prog[p].pc = "login"
    /\ \E r \in Responses : r.kind = "network_error" \/ r.status # 200
    /\ prog' = [prog EXCEPT ![p] = Failed(@, "Failed to get access token")]
    /\ UNCHANGED <<bootVars, remote>>

\* The token of the response; "" when the body has none or does not decode.
LoginDone(p) ==
    /\ prog[p].pc = "login"
    /\ \E r \in Responses :
           /\ r.kind = "status" /\ r.status = 200
           /\ prog' = [prog EXCEPT ![p] =
                          [@ EXCEPT !.pc = "resolve",
                                    !.accessToken = IF r.body = "ok" THEN Token ELSE ""]]
    /\ UNCHANGED <<bootVars, remote>>

\* The lookup request of getOrCreateProject, getOrCreateLogStream,
\* getProjectIDByName or getLogStreamIDByName.
LookupDo(p) ==
    /\ \/ prog[p].pc = "resolve"
       \/ /\ prog[p].pc = "start"
          /\ env.APIKey # ""
          /\ impl = "buffered" => config.AuthMethod # "bearer_token"
    /\ prog' = [prog EXCEPT ![p] =
           [@ EXCEPT !.pc = "lookup",
                     !.sent = @ \o Submissions(
                         [method |-> "GET",
                          path |-> ListPath(prog[p].resolving, prog[p].projectID),
                          auth |-> InitAuthHeader(p), body |-> ""])]]
    /\ UNCHANGED <<bootVars, remote>>

LookupFailed(p) ==
    /\ prog[p].pc = "lookup"
    /\ \E r \in Responses : LookupErr(r)
    /\ prog' = [prog EXCEPT ![p] = Failed(@, ResolveError(prog[p].resolving))]
    /\ UNCHANGED <<bootVars, remote>>

\* The listing has an entry the lookup returns.
LookupFound(p) ==
    /\ prog[p].pc = "lookup"
    /\ \E r \in Responses :
         LET kind == prog[p].resolving
             listing == Decoded(r, kind, prog[p].projectID)
         IN  /\ ~LookupErr(r)
             /\ \E e \in Candidates(listing, RequestedName(kind), kind) :
                    prog' = [prog EXCEPT ![p] =
                        Resolve([@ EXCEPT !.listing[kind] =
                                     [got |-> TRUE, entries |-> listing]], e.ID)]
    /\ UNCHANGED <<bootVars, remote>>

\* The listing has none: the create request goes out.
LookupNotFound(p) ==
    /\ prog[p].pc = "lookup"
    /\ \E r \in Responses :
         LET kind == prog[p].resolving
             listing == Decoded(r, kind, prog[p].projectID)
         IN  /\ ~LookupErr(r)
             /\ Candidates(listing, RequestedName(kind), kind) = {}
             /\ prog' = [prog EXCEPT ![p] =
                    [@ EXCEPT !.pc = "create",
                              !.listing[kind] = [got |-> TRUE, entries |-> listing],
                              !.sent = @ \o Submissions(
                                  [method |-> "POST",
                                   path |-> CreatePath(kind, prog[p].projectID),
                                   auth |-> InitAuthHeader(p),
                                   body |-> [name |-> RequestedName(kind)]])]]
    /\ UNCHANGED <<bootVars, remote>>

\* createProject / createLogStream end in an error; the remote service may
\* have created the resource all the same.
CreateFailed(p) ==
    /\ prog[p].pc = "create"
    /\ \E r \in Responses :
           /\ CreateErr(r)
           /\ remote' = IF Accepted(r) THEN RemoteAfterCreate(p, prog[p].resolving)
                        ELSE remote
    /\ prog' = [prog EXCEPT ![p] = Failed(@, ResolveError(prog[p].resolving))]
    /\ UNCHANGED bootVars

\* createProject / createLogStream return the ID field of the response, which
\* is "" when the body has no id or (golang/v2/main.go) does not decode.
CreateDone(p) ==
    /\ prog[p].pc = "create"
    /\ \E r \in Responses :
           /\ ~CreateErr(r)
           /\ remote' = RemoteAfterCreate(p, prog[p].resolving)
           /\ prog' = [prog EXCEPT ![p] =
                  Resolve(@, IF r.body = "ok" THEN NewID(prog[p].resolving) ELSE "")]
    /\ UNCHANGED bootVars

InitBoot ==
    /\ impl \in {"buffered", "single"}
    /\ env \in Envs
    /\ impl = "single" => env.AuthMethod = "api_key"
    /\ config = env
    /\ remote \in Remotes
    /\ prog = [p \in Programs |-> Starting]
    /\ InitFields

NextInit ==
    \E p \in Programs :
        \/ NewLoggerNoKey(p)
        \/ SingleNoKey(p)
        \/ LoginDo(p)
        \/ LoginFailed(p)
        \/ LoginDone(p)
        \/ LookupDo(p)
        \/ LookupFailed(p)
        \/ LookupFound(p)
        \/ LookupNotFound(p)
        \/ CreateFailed(p)
        \/ CreateDone(p)

SpecInit == InitBoot /\ [][NextInit]_vars

---------------------------------------------------------------------------
(***************************************************************************)
(* main() of golang/v2/main.go, run by one goroutine: the constructor, the *)
(* session, basicTraceExample on the Logger that has seen no call yet, and *)
(* the deferred Close().  The examples main() runs after the first one     *)
(* make the same calls on a Logger that is no longer fresh; Spec covers    *)
(* every sequence of those calls.                                          *)
(***************************************************************************)

BasicTrace ==
    [Name |-> "Basic LLM Call", Input |-> "What is the capital of France?",
     Tags |-> <<"basic", "llm-only">>, Metadata |-> EmptyMap]

BasicLlmSpan ==
    [Input |-> "What is the capital of France?",
     Output |-> "The capital of France is Paris.", Model |-> "gpt-4o",
     NumInputTokens |-> 8, NumOutputTokens |-> 7, TotalTokens |-> 15,
     DurationNs |-> 1500000000, Metadata |-> [temperature |-> "0.7"],
     Tags |-> <<"llm", "geography">>]

BasicConclude ==
    [Output |-> "The capital of France is Paris.", DurationNs |-> 1500000000,
     Tags |-> <<"completed", "success">>]

\* The calls main() makes, each named by where main() is once it has made it.
MainCalls ==
    [session |-> [name |-> "StartSession", cfg |-> "Go Demo Session"],
     trace |-> [name |-> "StartTraceWithContext", cfg |-> BasicTrace],
     span |-> [name |-> "AddLlmSpan", cfg |-> BasicLlmSpan],
     conclude |-> [name |-> "Conclude", cfg |-> BasicConclude],
     flush |-> [name |-> "FlushWithContext", cfg |-> "background"],
     close |-> [name |-> "Close", cfg |-> "background"]]

\* Where main() is before it makes the call.
MainBefore ==
    [session |-> "built", trace |-> "session", span |-> "trace", conclude |-> "span",
     flush |-> "conclude", close |-> "reported"]

mainVars == <<impl, config, env, remote, ncalls>>

\* main() makes its next call; StartSession has to have returned no error.
MainCall(at) ==
    /\ impl = "buffered"
    /\ prog[Main].pc = MainBefore[at]
    /\ at = "trace" => ret.err = "nil"
    /\ Invoke(MainGoroutine, MainCalls[at])
    /\ prog' = [prog EXCEPT ![Main].pc = at]
    /\ UNCHANGED mainVars

\* log.Fatalf("Failed to start session: %v", err): the process exits, and the
\* deferred Close() does not run.
MainSessionFailed ==
    /\ prog[Main].pc = "session"
    /\ pc[MainGoroutine] = "idle"
    /\ ret.err # "nil"
    /\ prog' = [prog EXCEPT ![Main] =
           [@ EXCEPT !.pc = "aborted", !.err = "Failed to start session"]]
    /\ logged' = Append(logged, "Failed to start session")
    /\ UNCHANGED <<mainVars, mu, loggerVars, pc, op, local, ret, requests, nextID,
                   clock, entry, history, discarded>>

\* basicTraceExample logs what its flush returned.
MainReport ==
    /\ prog[Main].pc = "flush"
    /\ pc[MainGoroutine] = "idle"
    /\ prog' = [prog EXCEPT ![Main].pc = "reported"]
    /\ logged' = Append(logged, IF ret.err = "nil" THEN "Basic trace flushed successfully"
                                ELSE "Error flushing basic trace: " \o ret.err)
    /\ UNCHANGED <<mainVars, mu, loggerVars, pc, op, local, ret, requests, nextID,
                   clock, entry, history, discarded>>

\* main() returns once the deferred Close() is back.
MainExit ==
    /\ prog[Main].pc = "close"
    /\ pc[MainGoroutine] = "idle"
    /\ prog' = [prog EXCEPT ![Main].pc = "exited"]
    /\ UNCHANGED <<mainVars, mu, loggerVars, pc, op, local, ret, requests, logged,
                   nextID, clock, entry, history, discarded>>

InitMain ==
    /\ impl = "buffered"
    /\ env \in Envs
    /\ config = env
    /\ remote \in Remotes
    /\ prog = [p \in Programs |-> IF p = Main THEN Starting ELSE Built]
    /\ InitFields

NextMain ==
    \/ NewLoggerNoKey(Main)
    \/ LoginDo(Main)
    \/ LoginFailed(Main)
    \/ LoginDone(Main)
    \/ LookupDo(Main)
    \/ LookupFailed(Main)
    \/ LookupFound(Main)
    \/ LookupNotFound(Main)
    \/ CreateFailed(Main)
    \/ CreateDone(Main)
    \/ \E at \in DOMAIN MainCalls : MainCall(at)
    \/ MainSessionFailed
    \/ MainReport
    \/ MainExit
    \/ SessionDo(MainGoroutine)
    \/ SessionFailed(MainGoroutine)
    \/ SessionStarted(MainGoroutine)
    \/ StartTraceWithContext(MainGoroutine)
    \/ BuildSpan(MainGoroutine)
    \/ StoreSpans(MainGoroutine)
    \/ Conclude(MainGoroutine)
    \/ FlushEmpty(MainGoroutine)
    \/ FlushDo(MainGoroutine)
    \/ FlushDone(MainGoroutine)

SpecMain == InitMain /\ [][NextMain]_vars

---------------------------------------------------------------------------
(***************************************************************************)
(* The buffered Logger with a trace waiting in its buffer: the state the    *)
(* StartTraceWithContext, the three AddSpan and the Conclude of            *)
(* batchProcessingExample leave behind, from where the callers go on as in *)
(* Spec.                                                                   *)
(***************************************************************************)

BatchTrace ==
    [Name |-> "Batch Item Processing", Input |-> "Process batch of 3 items",
     Tags |-> <<"batch">>, Metadata |-> EmptyMap]

BatchItems == <<"item1", "item2", "item3">>

BatchSpan(item) ==
    [Name |-> "process_item", Type |-> "tool", Input |-> item,
     Output |-> item \o " processed", DurationNs |-> 500000000,
     Metadata |-> EmptyMap, Tags |-> <<>>, Error |-> ""]

BatchConclude == [Output |-> "Batch processed.", DurationNs |-> 1500000000, Tags |-> <<>>]

\* The spans the loop over items has appended after n rounds.
RECURSIVE BatchSpans(_)
BatchSpans(n) ==
    IF n = 0 THEN <<>>
    ELSE AppendSpan(BatchSpans(n - 1), NewSpan(BatchSpan(BatchItems[n]), n + 1, n + 1))

\* l.traceBuffer once the trace of the example, with the spans of the loop, is
\* concluded.
WarmBuffer ==
    ConcludeEffect([NewTrace(BatchTrace, 1, 1) EXCEPT !.Spans = BatchSpans(Len(BatchItems))],
                   <<>>, BatchConclude).traceBuffer

InitWarm ==
    /\ impl = "buffered"
    /\ config = BufferedConfig
    /\ Resolved
    /\ mu = Unlocked
    /\ traceBuffer = WarmBuffer
    /\ currentTrace = NilTrace
    /\ sessionID = ""
    /\ pc = [g \in Goroutines |-> "idle"]
    /\ op = [g \in Goroutines |-> NoOp]
    /\ local = [g \in Goroutines |-> NoLocal]
    /\ ret = [value |-> "", err |-> "nil"]
    /\ requests = <<>>
    /\ logged = <<>>
    /\ nextID = Len(BatchItems) + 2
    /\ clock = Len(BatchItems) + 2
    /\ ncalls = 0
    /\ entry = [g \in Goroutines |-> <<>>]
    /\ history = 1 :> [fate |-> "concluded",
                       calls |-> [n \in DOMAIN BatchItems |->
                                     [name |-> "AddSpan", cfg |-> BatchSpan(BatchItems[n]),
                                      overlapped |-> FALSE]],
                       acks |-> 0]
    /\ discarded = {}

SpecWarm == InitWarm /\ [][Next]_vars

---------------------------------------------------------------------------
(***************************************************************************)
(* The constructor of the single-trace Logger over every configuration a   *)
(* caller can hand it; env keeps the configuration as the caller gave it.  *)
(***************************************************************************)

\* Calls made on a Logger of SpecDryRun over a run.
MaxDryRunCalls == 3

GivenLoggerConfigs ==
    [ProjectID : {"proj-1", ""}, LogStreamID : {"ls-1", ""}, APIKey : {"key", ""},
     BaseURL : {""}, DryRun : BOOLEAN]

InitDryRun ==
    /\ impl = "single"
    /\ env \in GivenLoggerConfigs
    /\ config = SingleNewLoggerConfig(env)
    /\ remote = RemoteWithBoth
    /\ prog = [p \in Programs |-> Built]
    /\ InitFields

DryRunCall(g) == ncalls < MaxDryRunCalls /\ SingleCall(g)

NextDryRun ==
    \E g \in Goroutines :
        \/ DryRunCall(g)
        \/ Lock(g)
        \/ SingleStartTrace(g)
        \/ SingleNoTrace(g)
        \/ SingleBuildSpan(g)
        \/ SingleStoreSpans(g)
        \/ SingleConclude(g)
        \/ SingleFlushNoTrace(g)
        \/ SingleFlushMarshalError(g)
        \/ SingleFlushDryRun(g)
        \/ SingleFlushRequestError(g)
        \/ SingleFlushDo(g)
        \/ SingleFlushFailed(g)
        \/ SingleFlushSent(g)

SpecDryRun == InitDryRun /\ [][NextDryRun]_vars

---------------------------------------------------------------------------
(***************************************************************************)
(* The demo programs: main() of golang/demo_observe.go ("observe") and of  *)
(* the second demo ("evaluate").  Each reads its two environment           *)
(* variables, logs in, and makes its calls one after the other; every      *)
(* error ends the program with os.Exit(1).  requests holds what            *)
(* c.client.Do was given, logged what the program printed.                 *)
(***************************************************************************)

\* The steps of main(): the call, what is printed before and after it, the
\* statuses it takes for success, and whether it decodes the response.
DemoSteps ==
    IF impl = "observe"
    THEN << [name |-> "login", header |-> "=== LOGGING IN ===",
             error |-> "Error logging in", ok |-> {200}, decodes |-> TRUE,
             done |-> "Login successful, received access token"],
            [name |-> "project", header |-> "=== CREATING LLM MONITOR PROJECT ===",
             error |-> "Error creating LLM monitor project", ok |-> {200, 201},
             decodes |-> TRUE, done |-> "MONITOR PROJECT CREATED"],
            [name |-> "alert", header |-> "=== CREATING ALERT ===",
             error |-> "Error creating alert", ok |-> {200, 201}, decodes |-> TRUE,
             done |-> "ALERT CREATED"],
            [name |-> "log", header |-> "=== LOGGING SIMPLE WORKFLOW ===",
             error |-> "Error logging simple workflow", ok |-> {200, 201, 202},
             decodes |-> FALSE, done |-> "Simple workflow logged successfully"],
            [name |-> "log_rag", header |-> "=== LOGGING RAG WORKFLOW ===",
             error |-> "Error logging RAG workflow", ok |-> {200, 201, 202},
             decodes |-> FALSE, done |-> "RAG workflow logged successfully"] >>
    ELSE << [name |-> "login", header |-> "=== LOGGING IN ===",
             error |-> "Error logging in", ok |-> {200}, decodes |-> TRUE, done |-> ""],
            [name |-> "project", header |-> "=== CREATING PROJECT ===",
             error |-> "Error creating project", ok |-> {200}, decodes |-> TRUE,
             done |-> "PROJECT CREATED"],
            [name |-> "run", header |-> "=== CREATING RUN ===",
             error |-> "Error creating run", ok |-> {200}, decodes |-> TRUE,
             done |-> "RUN CREATED"],
            [name |-> "log", header |-> "=== LOGGING DATA TO GALILEO ===",
             error |-> "Error logging data", ok |-> {200}, decodes |-> FALSE,
             done |-> ""] >>

\* The request of a step, built from what the earlier steps returned.
DemoRequest(name, st) ==
    [step |-> name, method |-> "POST",
     path |-> env.APIURL \o
         (CASE name = "login" -> "/login/api_key"
            [] name = "project" -> "/projects"
            [] name = "alert" -> "/projects/" \o st.projectID \o "/alerts/create"
            [] name = "run" -> "/projects/" \o st.projectID \o "/runs"
            [] name \in {"log", "log_rag"} ->
                   IF impl = "observe" THEN "/observe/workflows"
                   ELSE "/projects/" \o st.projectID \o "/runs/" \o st.runID
                            \o "/chains/ingest"),
     auth |-> IF name = "login" THEN NoAuthHeader
              ELSE [name |-> "Authorization", value |-> "Bearer " \o st.accessToken],
     body |-> IF name = "login" THEN [api_key |-> env.APIKey] ELSE name]

\* Only an error of c.client.Do counts as one.
DemoStepErrTransportOnly(step, r) ==
    IF r.kind = "network_error" THEN "error making request" ELSE ""

\* The error the call of a step returns for a response, "" for none.
DemoStepErr(step, r) ==
    IF r.kind = "network_error" THEN "error making request"
    ELSE IF r.status \notin step.ok THEN "status"
    ELSE IF step.decodes /\ r.body = "garbled" THEN "error decoding response"
    ELSE ""

\* GALILEO_API_KEY or GALILEO_API_URL is not set: the usage lines, os.Exit(1).
DemoNoEnv ==
    /\ prog[Main].pc = "ready" /\ prog[Main].step = 1
    /\ env.APIKey = "" \/ env.APIURL = ""
    /\ logged' = logged \o
           <<"Error: GALILEO_API_KEY and GALILEO_API_URL environment variables must be set",
             "Example:", " export GALILEO_API_KEY=your-api-key",
             " export GALILEO_API_URL=https://api.xyz.rungalileo.io">>
    /\ prog' = [prog EXCEPT ![Main].pc = "exited", ![Main].exit = 1]
    /\ UNCHANGED <<impl, config, env, remote, mu, loggerVars, pc, op, local, ret,
                   requests, nextID, clock, ncalls, entry, history, discarded>>

\* main() prints the header of its next step and the call reaches c.client.Do.
DemoSend ==
    /\ prog[Main].pc = "ready"
    /\ env.APIKey # "" /\ env.APIURL # ""
    /\ LET step == DemoSteps[prog[Main].step]
       IN  /\ logged' = Append(logged, step.header)
           /\ requests' = requests \o Submissions(DemoRequest(step.name, prog[Main]))
    /\ prog' = [prog EXCEPT ![Main].pc = "wait"]
    /\ UNCHANGED <<impl, config, env, remote, mu, loggerVars, pc, op, local, ret,
                   nextID, clock, ncalls, entry, history, discarded>>

\* The call returns without an error: main() keeps what the response held (a
\* field the body does not have decodes to ""), prints, and goes on; after
\* the last step it returns, which is exit status 0.
DemoStepDone ==
    /\ prog[Main].pc = "wait"
    /\ \E r \in Responses :
         LET n == prog[Main].step
             step == DemoSteps[n]
             value(v) == IF r.body = "ok" THEN v ELSE ""
         IN  /\ DemoStepErr(step, r) = ""
             /\ logged' = IF step.done = "" THEN logged ELSE Append(logged, step.done)
             /\ prog' = [prog EXCEPT ![Main] =
                    [@ EXCEPT !.got = Append(@, r),
                              !.accessToken = IF step.name = "login" THEN value(Token)
                                              ELSE @,
                              !.projectID = IF step.name = "project"
                                            THEN value("proj-new-1") ELSE @,
                              !.runID = IF step.name = "run" THEN value("run-1") ELSE @,
                              !.step = IF n = Len(DemoSteps) THEN n ELSE n + 1,
                              !.pc = IF n = Len(DemoSteps) THEN "exited" ELSE "ready",
                              !.exit = IF n = Len(DemoSteps) THEN 0 ELSE @]]
    /\ UNCHANGED <<impl, config, env, remote, mu, loggerVars, pc, op, local, ret,
                   requests, nextID, clock, ncalls, entry, history, discarded>>

\* The call returns an error: main() prints it and calls os.Exit(1).
DemoStepFailed ==
    /\ prog[Main].pc = "wait"
    /\ \E r \in Responses :
         LET step == DemoSteps[prog[Main].step]
         IN  /\ DemoStepErr(step, r) # ""
             /\ logged' = Append(logged, step.error \o ": " \o DemoStepErr(step, r))
             /\ prog' = [prog EXCEPT ![Main] =
                    [@ EXCEPT !.got = Append(@, r), !.pc = "exited", !.exit = 1]]
    /\ UNCHANGED <<impl, config, env, remote, mu, loggerVars, pc, op, local, ret,
                   requests, nextID, clock, ncalls, entry, history, discarded>>

InitDemo ==
    /\ impl \in {"observe", "evaluate"}
    /\ env \in [APIKey : {"key", ""}, APIURL : {"https://api.xyz.rungalileo.io", ""}]
    /\ config = env
    /\ remote = RemoteWithBoth
    /\ prog = [p \in Programs |->
                  [pc |-> IF p = Main THEN "ready" ELSE "exited", step |-> 1,
                   exit |-> IF p = Main THEN -1 ELSE 0, accessToken |-> "",
                   projectID |-> "", runID |-> "", got |-> <<>>]]
    /\ InitFields

NextDemo == DemoNoEnv \/ DemoSend \/ DemoStepDone \/ DemoStepFailed

SpecDemo == InitDemo /\ [][NextDemo]_vars

---------------------------------------------------------------------------
\* Vocabulary of the properties.

Range(seq) == {seq[i] : i \in DOMAIN seq}

SpanCalls == {"AddSpan", "AddLlmSpan"}

\* The goroutine holding the mutex takes the step that ends its call.
Returns(g, name) ==
    op[g].name = name /\ pc[g] \in {"body", "append", "inflight"} /\ pc'[g] = "idle"

LiveTraces ==
    (IF currentTrace = NilTrace THEN {} ELSE {currentTrace}) \cup Range(traceBuffer)

\* The ingestion payloads handed to httpClient.Do so far.
Payloads == {requests[i].body : i \in {j \in DOMAIN requests : requests[j].path = TracesPath}}

SpanIDs(trace) == {trace.Spans[i].ID : i \in DOMAIN trace.Spans}

---------------------------------------------------------------------------
\* C1: when FlushWithContext returns nil the trace buffer is empty; when it
\* returns an error (marshal, request construction, transport, status other
\* than 200/201) the buffer holds the same traces in the same order as when the
\* call took the mutex.
C1_FlushClearsOnSuccessKeepsOnError ==
    [][\A g \in Goroutines :
          Returns(g, "FlushWithContext") =>
              IF ret'.err = "nil"
              THEN traceBuffer' = <<>>
              ELSE traceBuffer' = entry[g]]_vars

\* A flush failed and left the buffer as it was, and the flush after it sent
\* the same traces again and emptied the buffer.
C1_Witness ==
    /\ traceBuffer = <<>>
    /\ Len(requests) = 2
    /\ \A i \in DOMAIN requests : requests[i].path = TracesPath
    /\ requests[1].body.traces = requests[2].body.traces
    /\ ret.err = "nil"

\* C2: the spans of a trace, of either Logger, are the AddSpan and AddLlmSpan
\* calls made on it since its StartTraceWithContext, one span per call, in call
\* order.
SpanOfCall(c) ==
    IF impl = "single"
    THEN IF c.name = "AddSpan" THEN SingleNewSpan(c.cfg, 0)
         ELSE SingleNewLlmSpan(c.cfg, 0)
    ELSE IF c.name = "AddSpan" THEN NewSpan(c.cfg, 0, 0)
         ELSE NewLlmSpan(c.cfg, 0, 0)

\* The span the call built, whatever identifier and start time it was given.
IsSpanOfCall(span, c) ==
    LET want == SpanOfCall(c)
    IN  /\ DOMAIN span = DOMAIN want
        /\ \A f \in DOMAIN want \ {"ID", "StartTime", "EndTime"} : span[f] = want[f]
        /\ "EndTime" \in DOMAIN span =>
               span.EndTime - span.StartTime = want.EndTime - want.StartTime

C2_SpansInCallOrder ==
    \A t \in LiveTraces :
        /\ t.ID \in DOMAIN history
        /\ Len(t.Spans) = Len(history[t.ID].calls)
        /\ \A i \in DOMAIN t.Spans : IsSpanOfCall(t.Spans[i], history[t.ID].calls[i])

\* A concluded trace with a generic span followed by an LLM span.
C2_Witness ==
    \E t \in Range(traceBuffer) :
        /\ Len(t.Spans) = 2
        /\ t.Spans[1].Name = "document_retrieval"
        /\ t.Spans[2].Name = "llm-span"

\* C3: Conclude on an active trace sets its output and end timestamp, puts it
\* at the tail of the buffer behind the unchanged earlier entries, and leaves
\* no active trace.
C3_ConcludeMovesTraceToTail ==
    [][\A g \in Goroutines :
          (Returns(g, "Conclude") /\ currentTrace # NilTrace) =>
              /\ currentTrace' = NilTrace
              /\ Len(traceBuffer') = Len(traceBuffer) + 1
              /\ SubSeq(traceBuffer', 1, Len(traceBuffer)) = traceBuffer
              /\ LET last == traceBuffer'[Len(traceBuffer')]
                 IN  /\ last.ID = currentTrace.ID
                     /\ last.Output = op[g].cfg.Output
                     /\ last.EndTime = currentTrace.StartTime + op[g].cfg.DurationNs
                     /\ last.EndTime # ZeroTime
                     /\ last.Spans = currentTrace.Spans
                     /\ last.Input = currentTrace.Input]_vars

\* Two traces concluded one after the other, the second with an output.
C3_Witness ==
    /\ currentTrace = NilTrace
    /\ Len(traceBuffer) = 2
    /\ traceBuffer[2].Output = "answer"
    /\ history[traceBuffer[2].ID].fate = "concluded"

\* C4: StartTraceWithContext over an active trace installs a fresh trace
\* without spans and leaves the buffer alone; the overwritten trace and its
\* spans are in no buffer and in no flush payload, ever.
NowhereToBeSeen(d) ==
    /\ \A t \in LiveTraces :
           t.ID # d.ID /\ SpanIDs(t) \cap SpanIDs(d) = {}
    /\ \A body \in Payloads : \A i \in DOMAIN body.traces :
           /\ body.traces[i].id # d.ID
           /\ \A j \in DOMAIN body.traces[i].spans :
                  body.traces[i].spans[j].id \notin SpanIDs(d)

C4_OverwrittenTraceIsDropped ==
    /\ [](\A d \in discarded : NowhereToBeSeen(d))
    /\ [][\A g \in Goroutines :
            (Returns(g, "StartTraceWithContext") /\ currentTrace # NilTrace) =>
                /\ currentTrace' # NilTrace
                /\ currentTrace'.Spans = <<>>
                /\ \A t \in LiveTraces \cup discarded : currentTrace'.ID # t.ID
                /\ traceBuffer' = traceBuffer]_vars

\* A trace with a span was overwritten, and its successor was concluded into
\* the buffer.
C4_Witness ==
    /\ \E d \in discarded : Len(d.Spans) > 0
    /\ \E t \in Range(traceBuffer) : history[t.ID].fate = "concluded"

\* C5: AddSpan, AddLlmSpan and Conclude without an active trace leave the
\* active-trace reference and the buffer unchanged, log a warning, and return
\* normally.
C5_NoActiveTraceWarnsAndReturns ==
    [][\A g \in Goroutines :
          (/\ pc[g] = "body"
           /\ op[g].name \in SpanCalls \cup {"Conclude"}
           /\ currentTrace = NilTrace
           /\ pc'[g] # pc[g]) =>
              /\ currentTrace' = NilTrace
              /\ traceBuffer' = traceBuffer
              /\ logged' = Append(logged, Warning(op[g].name))
              /\ pc'[g] = "idle"
              /\ ret'.err = "nil"
              /\ mu' = Unlocked]_vars

\* All three methods were called without an active trace.
C5_Witness ==
    /\ currentTrace = NilTrace
    /\ Len(logged) = 3
    /\ Range(logged) = {Warning(name) : name \in SpanCalls \cup {"Conclude"}}

\* C6: at most one trace is active, namely currentTrace; it has no output and
\* no end timestamp; every buffered trace has been concluded, carries an end
\* timestamp, and is not the active trace.
C6_ActiveAndBufferedTraces ==
    /\ \A id \in DOMAIN history :
           history[id].fate = "active" => currentTrace.ID = id
    /\ currentTrace # NilTrace =>
           /\ currentTrace.ID \in DOMAIN history
           /\ history[currentTrace.ID].fate = "active"
           /\ currentTrace.Output = ""
           /\ currentTrace.EndTime = ZeroTime
    /\ \A i \in DOMAIN traceBuffer :
           /\ traceBuffer[i].ID \in DOMAIN history
           /\ history[traceBuffer[i].ID].fate = "concluded"
           /\ traceBuffer[i].EndTime # ZeroTime
           /\ traceBuffer[i].ID # currentTrace.ID
           /\ \A j \in DOMAIN traceBuffer : traceBuffer[j].ID = traceBuffer[i].ID => j = i

\* A concluded trace waits in the buffer while the next trace is active.
C6_Witness ==
    /\ currentTrace # NilTrace
    /\ Len(traceBuffer) > 0
    /\ Len(currentTrace.Spans) > 0

\* C7: with AddSpan/AddLlmSpan calls in progress on several goroutines, each
\* call adds its one span behind all the spans the trace already has: no
\* update is lost, and no span identifier occurs twice.
C7_ConcurrentSpanCallsAllLand ==
    /\ [][\A g \in Goroutines :
            (pc[g] = "append" /\ pc'[g] = "idle") =>
                currentTrace'.Spans = Append(currentTrace.Spans, local[g].span)]_vars
    /\ [](\A i, j \in DOMAIN currentTrace.Spans :
            currentTrace.Spans[i].ID = currentTrace.Spans[j].ID => i = j)

\* Two goroutines each added a span, the second call waiting in Lock() while
\* the first was appending.
C7_Witness ==
    /\ currentTrace # NilTrace
    /\ Len(currentTrace.Spans) = 2
    /\ \A g \in Goroutines : pc[g] = "idle"
    /\ ncalls = 3
    /\ LET calls == history[currentTrace.ID].calls
       IN  /\ Len(calls) = 2
           /\ calls[1].overlapped

\* C8: each of the six methods is inside its body only while holding the
\* logger's mutex, so one goroutine at most is there, and only that goroutine
\* changes currentTrace, traceBuffer or sessionID.
InCritical(g) == pc[g] \in {"body", "append", "inflight"}

C8_OneMethodAtATime ==
    /\ [](\A g \in Goroutines : InCritical(g) => mu = g)
    /\ [][loggerVars' # loggerVars =>
            \E g \in Goroutines : mu = g /\ InCritical(g) /\ pc'[g] # pc[g]]_vars

\* StartSession waits for its response while a flush is blocked in Lock().
C8_Witness ==
    \E g, h \in Goroutines :
        /\ pc[g] = "inflight" /\ op[g].name = "StartSession"
        /\ pc[h] = "lock" /\ op[h].name = "FlushWithContext"

\* C9: FlushWithContext does not hold the logger's mutex while its request is
\* in flight.
C9_FlushSendsOutsideTheLock ==
    \A g \in Goroutines :
        (pc[g] = "inflight" /\ op[g].name = "FlushWithContext") => mu # g

\* C10: a flush whose context is cancelled or expires returns an error and
\* leaves the buffer as the call found it; a step takes a trace out of the
\* buffer only if it is the successful return of a flush, and then it takes
\* all of them.
C10_FlushIsAllOrNothing ==
    [][/\ \A g \in Goroutines :
            (/\ Returns(g, "FlushWithContext")
             /\ ret'.err = "failed to flush traces: context canceled") =>
                 (traceBuffer' = entry[g] /\ traceBuffer' # <<>>)
       /\ (\E i \in DOMAIN traceBuffer : traceBuffer[i] \notin Range(traceBuffer')) =>
            /\ traceBuffer' = <<>>
            /\ \E g \in Goroutines :
                   Returns(g, "FlushWithContext") /\ ret'.err = "nil"]_vars

\* A flush given a cancellable context came back with the context's error.
C10_Witness ==
    /\ \A g \in Goroutines : pc[g] = "idle"
    /\ ret.err = "failed to flush traces: context canceled"
    /\ Len(traceBuffer) > 0

---------------------------------------------------------------------------
(***************************************************************************)
(* Flush payload, retries, the basic example                               *)
(***************************************************************************)

IDs(seq) == [i \in DOMAIN seq |-> seq[i].ID]

PayloadIDs(traces) == [i \in DOMAIN traces |-> traces[i].id]

\* The traces of a payload carry the ids of buf in order, and each of them the
\* ids of its spans in order.
SameTracesAndSpans(traces, buf) ==
    /\ PayloadIDs(traces) = IDs(buf)
    /\ \A i \in DOMAIN buf : PayloadIDs(traces[i].spans) = IDs(buf[i].Spans)

\* The step appends one trace to the buffer, the one it marks concluded.
AppendsTheConcluded ==
    /\ Len(traceBuffer') = Len(traceBuffer) + 1
    /\ SubSeq(traceBuffer', 1, Len(traceBuffer)) = traceBuffer
    /\ LET id == traceBuffer'[Len(traceBuffer')].ID
       IN  /\ id \in DOMAIN history /\ history[id].fate = "active"
           /\ history'[id].fate = "concluded"
           /\ IDs(traceBuffer'[Len(traceBuffer')].Spans) = IDs(currentTrace.Spans)

\* C11: a flush of the buffered Logger that finds traces in the buffer puts one
\* request on the wire, to the traces endpoint, whose traces are the whole buffer
\* in buffer order, each with its spans in their order; the rest of the call adds
\* no further request; and the buffer is only ever left alone, emptied, or
\* extended at its tail by the trace being concluded, so that buffer order is
\* conclusion order.
C11_FlushSendsTheWholeBufferInOrder ==
    [][/\ \A g \in Goroutines :
            /\ InFlush(g) /\ pc'[g] = "inflight" =>
                   /\ Len(traceBuffer) # 0
                   /\ Len(requests') = Len(requests) + 1
                   /\ SubSeq(requests', 1, Len(requests)) = requests
                   /\ requests'[Len(requests')].path = TracesPath
                   /\ SameTracesAndSpans(requests'[Len(requests')].body.traces, traceBuffer)
            /\ pc[g] = "inflight" /\ op[g].name \in FlushCalls /\ pc'[g] # "inflight" =>
                   requests' = requests
            /\ InFlush(g) /\ pc'[g] # "inflight" => requests' = requests
       /\ \/ traceBuffer' \in {traceBuffer, <<>>}
          \/ AppendsTheConcluded]_vars

\* A flush in flight whose request carries two traces, the first with the three
\* spans of the batch example.
C11_Witness ==
    \E g \in Goroutines :
        /\ impl = "buffered" /\ pc[g] = "inflight" /\ op[g].name = "FlushWithContext"
        /\ Len(traceBuffer) = 2
        /\ Len(requests) = 1
        /\ Len(requests[1].body.traces) = 2
        /\ PayloadIDs(requests[1].body.traces[1].spans) = <<2, 3, 4>>
        /\ requests[1].body.traces[1].id < requests[1].body.traces[2].id

\* C12: neither Logger sends a request again on its own.  A step puts at most
\* one request on the wire, and only as the one send of a call that is in its
\* body; a call waiting for its response only returns, without a further
\* request, whatever the response; and a returned caller sends nothing until
\* it makes a new call.
C12_NoRetryWithinACall ==
    [][/\ Len(requests') <= Len(requests) + 1
       /\ requests' # requests =>
              /\ SubSeq(requests', 1, Len(requests)) = requests
              /\ \E g \in Goroutines : pc[g] = "body" /\ pc'[g] = "inflight"
       /\ \A g \in Goroutines :
              /\ pc[g] = "inflight" =>
                     /\ pc'[g] \in {"inflight", "idle"}
                     /\ pc'[g] = "idle" => requests' = requests
              /\ pc[g] = "idle" /\ pc'[g] # "idle" =>
                     /\ ncalls' = ncalls + 1
                     /\ requests' = requests]_vars

\* The single-trace Logger after a flush that failed on the status of the
\* response and a second FlushWithContext of the caller: the trace has gone
\* out twice, once per call.
C12_Witness ==
    /\ impl = "single"
    /\ ncalls = 3
    /\ Len(requests) = 2
    /\ requests[1].body = requests[2].body
    /\ \A g \in Goroutines : pc[g] = "idle"
    /\ ret.err = "failed to log trace, status code"

\* The Logger has seen four calls, among them one AddLlmSpan(cfg) on its only
\* trace, and has sent its one request, to the traces endpoint: the calls were
\* StartTraceWithContext, AddLlmSpan(cfg), Conclude and FlushWithContext.
BasicSequenceFlushed(cfg) ==
    /\ impl = "buffered"
    /\ ncalls = 4
    /\ Len(requests) = 1
    /\ requests[1].path = TracesPath
    /\ DOMAIN history = {1}
    /\ Len(history[1].calls) = 1
    /\ history[1].calls[1].name = "AddLlmSpan"
    /\ history[1].calls[1].cfg = cfg

\* C13: after StartTrace, AddLlmSpan, Conclude and Flush on a fresh buffered
\* Logger the request holds exactly one trace with exactly one span; the span
\* is of type "llm", carries the input and output given, and its metadata has
\* model and the three token counts as given to AddLlmSpan, also where the
\* caller's own metadata has a key of the same name.
C13_BasicSequenceSendsOneLlmSpan ==
    \A cfg \in LlmSpanConfigs :
        BasicSequenceFlushed(cfg) =>
            LET traces == requests[1].body.traces
            IN  /\ Len(traces) = 1
                /\ Len(traces[1].spans) = 1
                /\ LET span == traces[1].spans[1]
                   IN  /\ span.type = "llm"
                       /\ span.input = cfg.Input
                       /\ span.output = cfg.Output
                       /\ span.metadata["model"] = cfg.Model
                       /\ span.metadata["llm.token_count.input"] = cfg.NumInputTokens
                       /\ span.metadata["llm.token_count.output"] = cfg.NumOutputTokens
                       /\ span.metadata["llm.token_count.total"] = cfg.TotalTokens

\* The sequence has run with a configuration whose own metadata has a "model"
\* key other than the model of the call.
C13_Witness ==
    \E cfg \in LlmSpanConfigs :
        /\ BasicSequenceFlushed(cfg)
        /\ "model" \in DOMAIN cfg.Metadata
        /\ cfg.Metadata["model"] # cfg.Model

---------------------------------------------------------------------------
(***************************************************************************)
(* Initialization                                                          *)
(***************************************************************************)

\* The entries of the listing program p got that bear the requested name.
ExactMatches(p, kind) ==
    {e \in prog[p].listing[kind].entries : e.Name = RequestedName(kind)}

\* The create requests program p has sent for the kind.
CreateRequests(p, kind) ==
    {i \in DOMAIN prog[p].sent :
        /\ prog[p].sent[i].method = "POST"
        /\ prog[p].sent[i].path = CreatePath(kind, prog[p].projectID)}

ResolvedID(p, kind) == IF kind = "project" THEN prog[p].projectID ELSE prog[p].logStreamID

C15_BuiltLoggerHasBothIDs ==
    \A p \in Programs :
        impl = "buffered" /\ prog[p].pc = "built" =>
            prog[p].projectID # "" /\ prog[p].logStreamID # ""

\* The projects of the requested name the programs have had the remote
\* service create during the run.
CreatedProjects == {e \in remote.projects : e.by \in Programs /\ e.Name = env.ProjectName}

\* C16: the lookup and the create of a project are two requests with nothing
\* between them that keeps another program out.  A program has a project
\* created only after a listing of its own in which the name was missing, and
\* what that listing showed binds no other program: however many projects of
\* the name the remote service holds by now, each was created by a program
\* that had seen none.
C16_CreateFollowsOwnNotFound ==
    \A e \in CreatedProjects :
        /\ prog[e.by].listing["project"].got
        /\ ExactMatches(e.by, "project") = {}
        /\ CreateRequests(e.by, "project") # {}

\* Two programs started against a remote service without the project, both
\* were told "not found", both created it: two projects of the same name.
C16_Witness ==
    /\ \A p \in Programs :
           /\ prog[p].listing["project"].got
           /\ prog[p].listing["project"].entries = {}
           /\ \E e \in CreatedProjects : e.by = p
    /\ Cardinality(CreatedProjects) = 2
    /\ \A e \in remote.projects : e.Name = env.ProjectName => e \in CreatedProjects

---------------------------------------------------------------------------
(***************************************************************************)
(* Dry-run mode of the single-trace Logger                                 *)
(***************************************************************************)

\* The step is the return of goroutine g from its call.
Returning(g) == pc[g] \in {"body", "append", "inflight"} /\ pc'[g] = "idle"

\* What the calls that build the trace leave behind, in either mode: no
\* request, no log line, no error, and the trace with what the call was given.
BuildsLocally(g) ==
    /\ requests' = requests
    /\ logged' = logged
    /\ ret'.err = "nil"
    /\ op[g].name = "StartTraceWithContext" =>
           currentTrace'.Input = op[g].cfg.Input /\ currentTrace'.Spans = <<>>
    /\ op[g].name # "StartTraceWithContext" /\ currentTrace = NilTrace =>
           currentTrace' = NilTrace
    /\ op[g].name \in {"AddSpan", "AddLlmSpan"} /\ currentTrace # NilTrace =>
           /\ Len(currentTrace'.Spans) = Len(currentTrace.Spans) + 1
           /\ SubSeq(currentTrace'.Spans, 1, Len(currentTrace.Spans)) = currentTrace.Spans
           /\ currentTrace'.Spans[Len(currentTrace'.Spans)].Input = op[g].cfg.Input
           /\ currentTrace'.Spans[Len(currentTrace'.Spans)].Output = op[g].cfg.Output
    /\ op[g].name = "Conclude" /\ currentTrace # NilTrace =>
           /\ currentTrace'.Output = op[g].cfg.Output
           /\ currentTrace'.Spans = currentTrace.Spans

\* A FlushWithContext of the Logger in dry-run mode returns, having found an
\* active trace.
DryRunFlushReturns(g) ==
    /\ config.DryRun
    /\ SingleInBody(g, "FlushWithContext")
    /\ currentTrace # NilTrace
    /\ pc'[g] = "idle"

DryRunAsConfigured ==
    config.DryRun = (env.DryRun \/ env.APIKey = "" \/ env.ProjectID = "" \/ env.LogStreamID = "")

\* C17 as stated: the single-trace Logger is in dry-run mode exactly when the
\* caller set DryRun or left the API key, the project ID or the log-stream ID
\* empty, and in that mode every FlushWithContext that finds an active trace
\* returns nil, clears the trace and sends nothing.
C17_DryRunFlushAlwaysSucceeds ==
    [][/\ DryRunAsConfigured
       /\ \A g \in Goroutines :
              DryRunFlushReturns(g) =>
                  ret'.err = "nil" /\ currentTrace' = NilTrace /\ requests' = requests]_vars

\* C17, amended: dry-run mode is on exactly when the caller set DryRun or left
\* the API key, the project ID or the log-stream ID empty; StartTrace, AddSpan,
\* AddLlmSpan and Conclude do in it what they do otherwise; no request is ever
\* sent in it; and a FlushWithContext that finds an active trace returns nil
\* and clears the trace when the trace serializes, and returns "failed to
\* serialize trace" with the trace still active when it does not.
C17_DryRunFlushStaysLocal ==
    [][/\ DryRunAsConfigured
       /\ config.DryRun => requests' = requests
       /\ \A g \in Goroutines :
              /\ Returning(g) /\ op[g].name # "FlushWithContext" => BuildsLocally(g)
              /\ DryRunFlushReturns(g) =>
                     IF SingleMarshalFails(currentTrace)
                     THEN ret'.err = "failed to serialize trace"
                              /\ currentTrace' = currentTrace
                     ELSE ret'.err = "nil" /\ currentTrace' = NilTrace]_vars

\* A Logger given an API key and a project ID but no log-stream ID, and no
\* DryRun, has built a trace with a span and flushed it: the trace is gone,
\* its JSON is in the log, nothing went out.
C17_Witness ==
    /\ impl = "single"
    /\ ~env.DryRun /\ env.APIKey # "" /\ env.ProjectID # "" /\ env.LogStreamID = ""
    /\ config.DryRun
    /\ ncalls = 3
    /\ \A g \in Goroutines : pc[g] = "idle"
    /\ ret.err = "nil"
    /\ currentTrace = NilTrace
    /\ 1 \in DOMAIN history /\ Len(history[1].calls) = 1
    /\ Len(logged) = 2
    /\ requests = <<>>

---------------------------------------------------------------------------
(***************************************************************************)
(* Errors of the initialization and of Close, authentication               *)
(***************************************************************************)

\* C18: an initialization that fails hands the failure to its caller; the
\* code of the Logger never ends the process.
C18_InitializationNeverExits ==
    \A p \in Programs : prog[p].pc # "fatal"

\* C19: a flush whose request fails (the traces are still in the buffer when
\* it returns) hands its caller a failure, whether the caller called
\* FlushWithContext or Close.
C19_FailedFlushReturnsAFailure ==
    [][\A g \in Goroutines :
           /\ impl = "buffered"
           /\ pc[g] = "inflight" /\ op[g].name \in FlushCalls
           /\ pc'[g] = "idle"
           /\ traceBuffer' # <<>>
           => ret'.err \notin {"nil", NoReturn.err}]_vars

\* Every request the program has sent, the constructor's first.
AllSent == prog[Main].sent \o requests

IsLogin(req) == req.method = "POST" /\ req.path = "/login/api_key"

\* C20: with AuthMethod "bearer_token" the first request of the program is the
\* login, which carries the API key in its body and no authentication header,
\* there is no second login, and every later request (the lookups and creates
\* of the constructor, the session, the flushes) carries "Bearer " and the
\* access token of the Logger in its Authorization header; with any other
\* AuthMethod no request is a login and every request carries the API key in
\* its Galileo-API-Key header.
C20_AuthHeaderFollowsAuthMethod ==
    impl = "buffered" =>
        IF config.AuthMethod = "bearer_token"
        THEN \A i \in DOMAIN AllSent :
                 IF i = 1
                 THEN /\ IsLogin(AllSent[i])
                      /\ AllSent[i].auth = NoAuthHeader
                      /\ AllSent[i].body = [api_key |-> config.APIKey]
                 ELSE /\ ~IsLogin(AllSent[i])
                      /\ AllSent[i].auth =
                             [name |-> "Authorization", value |-> "Bearer " \o accessToken]
        ELSE \A i \in DOMAIN AllSent :
                 /\ ~IsLogin(AllSent[i])
                 /\ AllSent[i].auth = [name |-> "Galileo-API-Key", value |-> config.APIKey]

\* A program with AuthMethod "bearer_token" that has logged in, created its
\* log stream, started its session and sent its flush.
C20_Witness ==
    /\ impl = "buffered"
    /\ config.AuthMethod = "bearer_token"
    /\ accessToken = Token
    /\ Len(prog[Main].sent) = 4
    /\ Len(requests) = 2
    /\ requests[1].path = SessionsPath
    /\ requests[2].path = TracesPath

---------------------------------------------------------------------------
(***************************************************************************)
(* The demo programs                                                       *)
(***************************************************************************)

\* The response is no success of the step: no response at all, a status
\* outside 2xx, or a body the step has to decode and cannot.
DemoFailure(n) ==
    LET r == prog[Main].got[n]
    IN  \/ r.kind # "status"
        \/ r.status \notin {200, 201, 202}
        \/ DemoSteps[n].decodes /\ r.body = "garbled"

\* C21: a demo program sends nothing when GALILEO_API_KEY or GALILEO_API_URL
\* is unset; its requests are those of its steps in their order (login,
\* project, alert or run, log data), each sent only after every earlier one
\* was answered with success; and a step that fails is the last: its error is
\* the last line printed, the program has exited with status 1, and no
\* request follows.  Exit status 0 is that of a program all of whose steps
\* succeeded.
C21_StepsInOrderStopAtFirstFailure ==
    impl \in {"observe", "evaluate"} =>
        LET st == prog[Main]
        IN  /\ (env.APIKey = "" \/ env.APIURL = "") =>
                   /\ requests = <<>>
                   /\ st.pc = "exited" => st.exit = 1 /\ Len(logged) > 0
            /\ Len(requests) <= Len(DemoSteps)
            /\ Len(st.got) \in {Len(requests), Len(requests) - 1}
            /\ \A i \in DOMAIN requests :
                   /\ requests[i].step = DemoSteps[i].name
                   /\ \A j \in 1..(i - 1) : ~DemoFailure(j)
            /\ \A n \in DOMAIN st.got :
                   DemoFailure(n) =>
                       /\ n = Len(requests)
                       /\ st.pc = "exited" /\ st.exit = 1
                       /\ logged[Len(logged)] =
                              DemoSteps[n].error \o ": " \o DemoStepErr(DemoSteps[n], st.got[n])
            /\ st.pc = "exited" /\ st.exit = 0 =>
                   /\ Len(st.got) = Len(DemoSteps)
                   /\ \A n \in DOMAIN st.got : ~DemoFailure(n)

\* demo_observe.go logged in and created its project, and the alert request
\* was answered with status 500: three requests, exit status 1.
C21_Witness ==
    /\ impl = "observe"
    /\ prog[Main].pc = "exited" /\ prog[Main].exit = 1
    /\ Len(requests) = 3
    /\ requests[3].step = "alert"
    /\ prog[Main].got[3].kind = "status" /\ prog[Main].got[3].status = 500
    /\ logged[Len(logged)] = "Error creating alert: status"

---------------------------------------------------------------------------
\* The active trace of the single-trace Logger has had its Conclude.
ActiveIsConcluded ==
    /\ currentTrace # NilTrace
    /\ currentTrace.ID \in DOMAIN history
    /\ history[currentTrace.ID].fate = "concluded"

\* C22: for the single-trace Logger, Conclude clears the active-trace
\* reference, so that until the next StartTraceWithContext AddSpan, AddLlmSpan
\* and Conclude do nothing: when Conclude returns there is no active trace,
\* and no step changes the spans, tags, output or duration of a trace that
\* was concluded.
C22_ConcludeClearsTheActiveTrace ==
    [][impl = "single" =>
          /\ \A g \in Goroutines : Returns(g, "Conclude") => currentTrace' = NilTrace
          /\ ActiveIsConcluded /\ currentTrace' # NilTrace
                 /\ currentTrace'.ID = currentTrace.ID
                 => currentTrace' = currentTrace]_vars

\* C23: for the single-trace Logger, AddSpan, AddLlmSpan and Conclude called
\* with no active trace change nothing of the Logger and report the misuse:
\* the step that returns from such a call writes a warning to the log.
C23_NoActiveTraceIsReported ==
    [][\A g \in Goroutines :
          /\ impl = "single"
          /\ currentTrace = NilTrace
          /\ op[g].name \in SpanCalls \cup {"Conclude"}
          /\ Returns(g, op[g].name)
          => /\ UNCHANGED loggerVars
             /\ Len(logged') > Len(logged)]_vars

\* C28: for the single-trace Logger, FlushWithContext submits a trace only
\* after its Conclude: a request (or the dry-run print) is made only of a
\* concluded trace, and with no active trace the call returns "no trace to
\* flush" and changes nothing.
C28_FlushSubmitsOnlyConcludedTraces ==
    [][impl = "single" =>
          /\ requests' # requests \/ logged' # logged => ActiveIsConcluded
          /\ \A g \in Goroutines :
                 currentTrace = NilTrace /\ Returns(g, "FlushWithContext")
                     /\ pc[g] = "body"
                 => /\ ret'.err = "no trace to flush"
                    /\ UNCHANGED <<loggerVars, requests, logged>>]_vars

---------------------------------------------------------------------------
\* The tags the caller gave to the StartTraceWithContext of a trace: the
\* trace configurations differ in their Input.
StartTagsOf(trace) ==
    (CHOOSE c \in IF impl = "single" THEN SingleTraceConfigs ELSE TraceConfigs :
         c.Input = trace.Input).Tags

\* The trace carries each of the tags: in its Tags, or joined under a key of
\* its Metadata.
CarriesTags(trace, tags) ==
    \/ Len(tags) = 0
    \/ IF impl = "single"
       THEN \A i \in DOMAIN tags : tags[i] \in Range(trace.Tags)
       ELSE \E k \in DOMAIN trace.Metadata \cap {"tags", "completion_tags"} :
                trace.Metadata[k] = Join(tags)

\* C24: Conclude merges its tags with the tags of the trace: when Conclude
\* returns, the trace it concluded carries every tag given to
\* StartTraceWithContext and every tag given to Conclude.
C24_ConcludeKeepsStartTagsAndAddsItsOwn ==
    [][\A g \in Goroutines :
          Returns(g, "Conclude") /\ currentTrace # NilTrace
          => LET concluded == IF impl = "single" THEN currentTrace'
                              ELSE traceBuffer'[Len(traceBuffer')]
             IN  /\ concluded.ID = currentTrace.ID
                 /\ CarriesTags(concluded, StartTagsOf(currentTrace))
                 /\ CarriesTags(concluded, op[g].cfg.Tags)]_vars

C24_Witness ==
    /\ impl = "buffered"
    /\ \E i \in DOMAIN traceBuffer :
           /\ Len(StartTagsOf(traceBuffer[i])) > 0
           /\ traceBuffer[i].Output = "answer"
           /\ {"tags", "completion_tags"} \subseteq DOMAIN traceBuffer[i].Metadata

---------------------------------------------------------------------------
\* C25: for the single-trace Logger outside dry-run mode, FlushWithContext
\* with an active trace leaves no active trace when it returns nil, and on
\* every error return (serialization, request construction, transport, a
\* status other than 200 and 201) the active trace is again the trace the
\* call found, spans included, and nothing else of the Logger has changed.
C25_SingleFlushClearsOrRestores ==
    [][\A g \in Goroutines :
          impl = "single" /\ ~config.DryRun /\ op[g].name = "FlushWithContext"
          => /\ pc[g] = "body" /\ pc'[g] = "inflight"
                 => currentTrace # NilTrace /\ local'[g].traceToFlush = currentTrace
             /\ pc[g] = "body" /\ pc'[g] = "idle" /\ currentTrace # NilTrace
                 => ret'.err # "nil" /\ UNCHANGED loggerVars
             /\ pc[g] = "inflight" /\ pc'[g] = "idle"
                 => /\ currentTrace' = IF ret'.err = "nil" THEN NilTrace
                                       ELSE local[g].traceToFlush
                    /\ UNCHANGED <<traceBuffer, sessionID>>
             /\ pc[g] = "inflight" /\ pc'[g] = "inflight" => UNCHANGED loggerVars]_vars

C25_Witness ==
    /\ impl = "single"
    /\ ~config.DryRun
    /\ ret.err = "failed to log trace, status code"
    /\ currentTrace # NilTrace
    /\ Len(currentTrace.Spans) > 0
    /\ Len(requests) > 0

---------------------------------------------------------------------------
\* How many entries of the buffer are the trace.
RECURSIVE TimesIn(_, _)
TimesIn(buf, id) ==
    IF Len(buf) = 0 THEN 0
    ELSE (IF Head(buf).ID = id THEN 1 ELSE 0) + TimesIn(Tail(buf), id)

\* C26: for the buffered Logger, under any sequence of calls and any outcomes
\* of the flushes, every concluded trace is either in the buffer exactly once
\* or was carried by exactly one flush that returned success, never both and
\* never neither.
C26_ConcludedTraceBufferedOrFlushedOnce ==
    impl = "buffered" =>
        \A id \in DOMAIN history :
            history[id].fate = "concluded" =>
                /\ TimesIn(traceBuffer, id) + history[id].acks = 1
                /\ id # currentTrace.ID

\* A trace that a failed flush kept and a second flush delivered, beside one
\* that is still buffered.
C26_Witness ==
    /\ impl = "buffered"
    /\ Len(requests) = 2
    /\ \A i \in DOMAIN requests : requests[i].path = TracesPath
    /\ \E id \in DOMAIN history :
           history[id].fate = "concluded" /\ history[id].acks = 1
               /\ TimesIn(traceBuffer, id) = 0
    /\ pc = [g \in Goroutines |-> "idle"]

---------------------------------------------------------------------------
\* C27: for the buffered Logger, FlushWithContext on an empty buffer returns
\* nil at its next step, with no request made and the buffer and the active
\* trace as they were; no payload ever carries a trace that was not concluded.
C27_EmptyFlushDoesNothing ==
    [][impl = "buffered" =>
          /\ \A g \in Goroutines :
                 /\ op[g].name = "FlushWithContext"
                 /\ pc[g] = "body"
                 /\ Len(traceBuffer) = 0
                 /\ pc'[g] # "body"
                 => /\ pc'[g] = "idle"
                    /\ ret'.err = "nil"
                    /\ UNCHANGED <<loggerVars, requests, logged>>
          /\ \A body \in Payloads : \A i \in DOMAIN body.traces :
                 /\ body.traces[i].id \in DOMAIN history
                 /\ history[body.traces[i].id].fate = "concluded"]_vars

\* StartTraceWithContext and FlushWithContext, and nothing else, were called
\* and have returned.
C27_Witness ==
    /\ impl = "buffered"
    /\ ncalls = 2
    /\ pc = [g \in Goroutines |-> "idle"]
    /\ currentTrace # NilTrace
    /\ DOMAIN history = {1}
    /\ nextID = 2
    /\ traceBuffer = <<>>
    /\ requests = <<>>
    /\ logged = <<>>
    /\ ret.err = "nil"

---------------------------------------------------------------------------
\* The session of a payload; "" when it has no session_id.
SessionOf(body) == IF "session_id" \in DOMAIN body THEN body.session_id ELSE ""

\* C30: for the buffered Logger, every flush payload carries the session ID
\* that the most recent successful StartSession set (none before the first),
\* whatever session was current when its traces were started or concluded:
\* the session ID is what the last StartSession that returned nil returned,
\* no other step changes it, a StartSession that returns an error leaves the
\* session ID, the buffer and the active trace alone, and the payload of a
\* flush carries the session ID of that moment.
C30_PayloadCarriesTheCurrentSession ==
    [][impl = "buffered" =>
          /\ \A g \in Goroutines :
                 Returns(g, "StartSession")
                 => IF ret'.err = "nil" THEN sessionID' = ret'.value
                                             /\ UNCHANGED <<traceBuffer, currentTrace>>
                    ELSE UNCHANGED loggerVars
          /\ (\A g \in Goroutines : ~Returns(g, "StartSession"))
                 => sessionID' = sessionID
          /\ \A i \in DOMAIN requests' \ DOMAIN requests :
                 requests'[i].path = TracesPath
                 => SessionOf(requests'[i].body) = sessionID]_vars

C30_Witness ==
    /\ impl = "buffered"
    /\ Len(requests) = 2
    /\ requests[1].path = SessionsPath
    /\ requests[2].path = TracesPath
    /\ SessionOf(requests[2].body) = "sess-1"
    /\ ret.err = "nil"
    /\ traceBuffer = <<>>

---------------------------------------------------------------------------
\* C29: for the buffered Logger with concurrent callers, every method
\* releases the mutex on every return path (a goroutine holds it exactly
\* while it is between Lock() and its return, and the step that returns
\* frees it), and, each network call coming back, every pending call
\* eventually completes.
C29_MutexReleasedAndCallsComplete ==
    /\ [](impl = "buffered" =>
             \A g \in Goroutines :
                 (mu = g) <=> pc[g] \in {"body", "append", "inflight"})
    /\ \A g \in Goroutines : (pc[g] # "idle") ~> (pc[g] = "idle")

\* A goroutine waits in Lock() while the other holds the mutex across the
\* httpClient.Do of a flush.
C29_Witness ==
    /\ impl = "buffered"
    /\ \E g, h \in Goroutines :
           /\ pc[g] = "inflight" /\ op[g].name = "FlushWithContext" /\ mu = g
           /\ pc[h] = "lock"

====
